---- MODULE Spec2Model ----
EXTENDS Integers, FiniteSets, Sequences, TLC

(***************************************************************************)
(* Model of the baseline_v1_live trading loop: the per-side entry order    *)
(* management (order_manager.py), the position ledger                      *)
(* (position_tracker.py) and the decision cycle that drives them           *)
(* (baseline_v1_live.py).  The broker is the environment: it fills,        *)
(* rejects and triggers orders between the program's steps, and every      *)
(* broker call of the program draws its outcome from the environment.      *)
(* The program runs live (DRY_RUN is false, config.py).                    *)
(***************************************************************************)

\* ------------------------------------------------------------ config.py
MAX_POSITIONS == 5
MAX_CE_POSITIONS == 3
MAX_PE_POSITIONS == 3
MAX_SL_FAILURE_COUNT == 3
DAILY_TARGET_R == 5
DAILY_STOP_R == -5
MIN_ENTRY_PRICE == 100
MAX_ENTRY_PRICE == 300
\* MIN_VWAP_PREMIUM, MIN_SL_PERCENT and MAX_SL_PERCENT, in percent
MIN_VWAP_PREMIUM == 4
MIN_SL_PERCENT == 2
MAX_SL_PERCENT == 10
TARGET_SL_POINTS == 10
R_VALUE == 6500
LOT_SIZE == 65
MAX_LOTS_PER_POSITION == 10
NOTIFICATION_THROTTLE_BROKER == 1800
WEBSOCKET_MAX_RECONNECT_ATTEMPTS == 5

\* ------------------------------------------------------------ bounds
\* quantity of every candidate (entry orders are requested at this size;
\* the broker fills 1..MaxQty of it)
MaxQty == 2
\* adverse / favourable price move of a position, in stop distances
MoveStep == 5
\* entry fills the broker performs in one session
MaxTrades == 2
\* entry orders left live at the broker, per side, that the program no
\* longer tracks
MaxZombies == 1
\* one-minute bars of the session, backfilled and live
MaxBars == 6
MaxMinutes == 3
\* completed bars the data pipeline holds for the symbol
MaxSessionBars == 4
\* the clock of the notification log: seconds between two readings, the
\* last reading, and the occurrences counted for one error
ClockStep == 900
MaxClock == 3600
MaxOccurrences == 3

\* ------------------------------------------------------------ universe
Sides == {"CE", "PE"}
CESymbols == {"CE1", "CE2", "CE3"}
PESymbols == {"PE1", "PE2", "PE3"}
Symbols == CESymbols \cup PESymbols

\* option type of a symbol (the symbol's suffix)
OptionType(symbol) == IF symbol \in CESymbols THEN "CE" ELSE "PE"

\* a dict key that is not present / a key present with the value None
Absent == [absent |-> TRUE]
NoneMarker == [none |-> TRUE]
IsOrder(v) == v # Absent /\ v # NoneMarker

NoCandidate == [candidate |-> FALSE]
NoFill == [fill |-> FALSE]
NoOrder == [order |-> FALSE]
NoLiq == [liquidation |-> FALSE]
NoSwing == [swing |-> FALSE]
NoBook == [book |-> FALSE]
NoTime == [none |-> TRUE]
NoCall == [call |-> FALSE]
NoPrice == [price |-> FALSE]

\* The bars of the data feed: a bar spans four rupees and closes at its
\* low or at its high.
BarLows == {98, 100, 102}
Bars == {[low |-> l, high |-> l + 4, close |-> l + d] : l \in BarLows, d \in {0, 4}}
\* the VWAP a bar can carry
Vwaps == {90, 104}
\* the symbol whose bars the swing detector and the filter are followed for
FeedSymbol == "CE1"
\* the error types followed in the notification log, one message each
ErrorTypes == {"BROKER_DISCONNECTED", "SYSTEM_RECOVERED"}
Threads == {"loop", "monitor"}

\* The environment the program runs in: the symbols that produce
\* candidates, the outcomes a broker call can have, the fill sizes, the
\* price moves, the number of fills, and whether the broker's position
\* book can show a position the program did not open or a quantity it did
\* not fill (mismatch: the symbols it can do so for).
FaultyEnv == [symbols |-> {"CE1", "PE1"}, ok |-> BOOLEAN,
              partial |-> TRUE, moves |-> {0 - MoveStep, 0, MoveStep},
              trades |-> MaxTrades, zombies |-> 0, mismatch |-> {}]
OrdersEnv == [symbols |-> {"CE1", "CE2", "PE1"}, ok |-> BOOLEAN,
              partial |-> FALSE, moves |-> {0},
              trades |-> MAX_SL_FAILURE_COUNT, zombies |-> MaxZombies,
              mismatch |-> {}]
BenignEnv == [symbols |-> Symbols, ok |-> {TRUE},
              partial |-> FALSE, moves |-> {0},
              trades |-> MAX_POSITIONS + 1, zombies |-> 0, mismatch |-> {}]
LedgerEnv == [symbols |-> {"CE1", "PE1"}, ok |-> {TRUE},
              partial |-> TRUE, moves |-> {0 - 1, 0, 1},
              trades |-> MaxTrades, zombies |-> 0,
              mismatch |-> {"CE1", "PE1", "CE2"}]

VARIABLES
    pc,                       \* position of the main loop
    pending_limit_orders,     \* OrderManager: side -> Absent | NoneMarker | order
    pending_keys,             \* insertion order of the dict's keys
    active_sl_orders,         \* OrderManager: symbol -> Absent | [quantity]
    consecutive_sl_failures,  \* OrderManager
    open_positions,           \* PositionTracker: symbol -> Absent | position
    closed_positions,         \* PositionTracker: [realized_pnl], summed over the list
    daily_exit_triggered,     \* PositionTracker
    daily_exit_reason,        \* PositionTracker
    fills,                    \* fills waiting for handle_order_fill, in handling order
    sl_orders_missing,        \* result of reconcile_orders_with_broker
    broker_entry,             \* broker: the tracked entry order of a side
    broker_stop,              \* broker: the tracked stop order of a symbol
    zombies,                  \* broker: live entry orders nobody tracks, per side
    trades,                   \* broker: entry fills performed
    submitted,                \* observation: sides the order management just submitted an entry for
    last_fill,                \* observation: the fill just handled
    exits,                    \* observation: the emergency_market_exit calls just made
    alerts,                   \* observation: open positions a manual-intervention alert named
    stop_done,                \* observation: open positions whose stop the broker reported done
    liq,                      \* observation: the liquidation run, this cycle
    bars,                     \* SwingDetector of FeedSymbol: the bars added
    swings,                   \* SwingDetector: the swings; last_swing is the last one
    low_watch_count,          \* SwingDetector: bar index -> watches
    high_watch_count,         \* SwingDetector: bar index -> watches
    is_historical_processing, \* SwingDetector: start() has not gone live yet
    stage1_swings,            \* ContinuousFilterEngine: the pool of FeedSymbol's side
    current_best,             \* ContinuousFilterEngine: best candidate of the side
    swing_info,               \* observation: the swing the last update delivered to the callback
    trigger,                  \* observation: the directive get_order_triggers just derived
    order_book,               \* observation: the order book reconcile_orders_with_broker just read
    position_book,            \* observation: the position book reconcile_with_broker just read
    rejections,               \* observation: side -> the terms of the entry order found rejected
    steps,                    \* observation: what the iteration has done so far, in order
    is_reconnecting,          \* DataPipeline.is_reconnecting, the guard flag of reconnect
    is_connected,             \* DataPipeline.is_connected
    subscribed_symbols,       \* DataPipeline.subscribed_symbols is not empty
    last_bar_timestamp,       \* DataPipeline.last_bar_timestamp of the symbol: NoTime or [at |-> minute]
    pipeline_bars,            \* DataPipeline.bars of the symbol: the minutes it holds a bar of
    rpc,                      \* thread -> its position in DataPipeline.reconnect
    attempt,                  \* thread -> the attempt its reconnect is at
    result,                   \* thread -> what its reconnect returned ("none": nothing yet)
    driver,                   \* run_trading_loop: running, reconnecting, shutdown, exited
    feed,                     \* the broker's tick stream: flowing or dead
    now,                      \* the minute the clock is in
    outage,                   \* observation: the minutes that ended while the feed was dead
    exhausted,                \* observation: the threads whose reconnect used up its attempts
    shutdown_flag,            \* the module's shutdown_flag, set by signal_handler
    call_in,                  \* the arguments of the function call under study
    call_out,                 \* what the call returned
    swing_candidates,         \* ContinuousFilterEngine.swing_candidates: the symbols it has a key for
    session_bars,             \* DataPipeline.bars of the symbol, each bar with the vwap stored on it
    session_vwap_data,        \* DataPipeline.session_vwap_data of the symbol: Absent or the sums
    history_loaded,           \* load_historical_data has handled the symbol
    detector_bars,            \* SwingDetector.bars of the symbol: the minutes of its bars, in order
    error_notifications_log,  \* the table's row of each error type's message: Absent or its columns
    clock,                    \* datetime.now(), in seconds
    notified                  \* observation: the last send_error_notification call and whether it sent

program_vars == <<pending_limit_orders, pending_keys, active_sl_orders,
                  consecutive_sl_failures, open_positions, closed_positions,
                  daily_exit_triggered, daily_exit_reason, fills,
                  sl_orders_missing>>
broker_vars == <<broker_entry, broker_stop, zombies, trades>>
ghost_vars == <<submitted, last_fill, exits, alerts, stop_done, liq>>
trading_vars == <<pc, program_vars, broker_vars, ghost_vars>>
feed_vars == <<bars, swings, low_watch_count, high_watch_count,
               is_historical_processing, stage1_swings, current_best,
               swing_info, trigger>>
\* what the trading loop's order and position handling leaves alone
audit_vars == <<order_book, position_book, rejections, steps>>
link_vars == <<is_reconnecting, is_connected, subscribed_symbols, last_bar_timestamp,
               pipeline_bars, rpc, attempt, result, driver, feed, now, outage,
               exhausted>>
call_vars == <<call_in, call_out, swing_candidates>>
\* the state of the components followed on their own
unit_vars == <<session_bars, session_vwap_data, history_loaded, detector_bars,
               error_notifications_log, clock, notified>>
other_vars == <<feed_vars, link_vars, shutdown_flag, call_vars, unit_vars>>
outside_units == <<trading_vars, feed_vars, audit_vars, link_vars, shutdown_flag,
                   call_vars>>
outside_trading == <<other_vars, audit_vars>>
vars == <<trading_vars, outside_trading>>

\* ------------------------------------------------------------ dict helpers
DelKey(keys, k) == SelectSeq(keys, LAMBDA x : x # k)
SetKey(keys, k) == IF \E i \in DOMAIN keys : keys[i] = k THEN keys ELSE Append(keys, k)

OpenSymbols(positions) == {s \in Symbols : positions[s] # Absent}
OpenOfType(positions, ot) == {s \in OpenSymbols(positions) : OptionType(s) = ot}

\* ------------------------------------------------------------ Init
Init ==
    /\ pc = "idle"
    /\ pending_limit_orders = [ot \in Sides |-> Absent]
    /\ pending_keys = << >>
    /\ active_sl_orders = [s \in Symbols |-> Absent]
    /\ consecutive_sl_failures = 0
    /\ open_positions = [s \in Symbols |-> Absent]
    /\ closed_positions = [realized_pnl |-> 0]
    /\ daily_exit_triggered = FALSE
    /\ daily_exit_reason = "None"
    /\ fills = << >>
    /\ sl_orders_missing = {}
    /\ broker_entry = [ot \in Sides |-> NoOrder]
    /\ broker_stop = [s \in Symbols |-> NoOrder]
    /\ zombies = [ot \in Sides |-> 0]
    /\ trades = 0
    /\ submitted = {}
    /\ last_fill = NoFill
    /\ exits = {}
    /\ alerts = {}
    /\ stop_done = {}
    /\ liq = NoLiq
    /\ bars = << >>
    /\ swings = << >>
    /\ low_watch_count = [j \in 1 .. MaxBars |-> 0]
    /\ high_watch_count = [j \in 1 .. MaxBars |-> 0]
    /\ is_historical_processing = TRUE
    /\ stage1_swings = << >>
    /\ current_best = NoCandidate
    /\ swing_info = NoSwing
    /\ trigger = "none"
    /\ order_book = NoBook
    /\ position_book = NoBook
    /\ rejections = [ot \in Sides |-> NoOrder]
    /\ steps = << >>
    /\ is_reconnecting = FALSE
    /\ is_connected = TRUE
    /\ subscribed_symbols = TRUE
    /\ last_bar_timestamp = NoTime
    /\ pipeline_bars = {}
    /\ rpc = [t \in Threads |-> "none"]
    /\ attempt = [t \in Threads |-> 0]
    /\ result = [t \in Threads |-> "none"]
    /\ driver = "running"
    /\ feed = "flowing"
    /\ now = 0
    /\ outage = {}
    /\ exhausted = {}
    /\ shutdown_flag = FALSE
    /\ call_in = NoCall
    /\ call_out = NoCall
    /\ swing_candidates = {}
    /\ session_bars = << >>
    /\ session_vwap_data = Absent
    /\ history_loaded = FALSE
    /\ detector_bars = << >>
    /\ error_notifications_log = [t \in ErrorTypes |-> Absent]
    /\ clock = 0
    /\ notified = NoCall

\* ------------------------------------------------------------ admission
\* PositionTracker.can_open_position
CanOpenPosition(positions, exit_triggered, symbol, option_type) ==
    /\ ~exit_triggered
    /\ positions[symbol] = Absent
    /\ Cardinality(OpenSymbols(positions)) < MAX_POSITIONS
    /\ (option_type = "CE" =>
            Cardinality(OpenOfType(positions, "CE")) < MAX_CE_POSITIONS)
    /\ (option_type = "PE" =>
            Cardinality(OpenOfType(positions, "PE")) < MAX_PE_POSITIONS)

\* the directives in the order the specification lists them, without the
\* missing-price rule and the startup protection
TriggerAsListed(candidate, existing_order, price_above_swing) ==
    IF candidate = NoCandidate THEN "cancel"
    ELSE IF IsOrder(existing_order) /\ existing_order.symbol # candidate.symbol
         THEN "place"
    ELSE IF price_above_swing # NoPrice /\ price_above_swing.points <= 0
         THEN "check_fill"
    ELSE IF IsOrder(existing_order) THEN "wait"
    ELSE "place"

\* ContinuousFilterEngine.get_order_triggers, for one side: the directive
\* for the side's best candidate, given the side's tracked order and the
\* distance of the symbol's price above the swing low (NoPrice: neither
\* current_bars nor latest_bars holds the symbol).
GetOrderTrigger(candidate, existing_order, price_above_swing) ==
    IF candidate = NoCandidate THEN "cancel"
    ELSE IF price_above_swing = NoPrice THEN "wait"
    ELSE IF IsOrder(existing_order) /\ existing_order.symbol # candidate.symbol
         THEN "place"
    ELSE IF price_above_swing.points <= 0 THEN "check_fill"
    ELSE IF IsOrder(existing_order) THEN "wait"
    ELSE IF candidate.broke_in_history THEN "wait"
    ELSE "place"

\* get_order_triggers as process_tick calls it: the best candidate comes
\* from evaluate_all_candidates over the same latest_bars, so its symbol
\* has a price
OrderTrigger(candidate, existing_order, price_broke) ==
    GetOrderTrigger(candidate, existing_order,
                    [points |-> IF price_broke THEN 0 ELSE 1])

\* the best candidate of a side this cycle (evaluate_all_candidates): the
\* enriched record carries symbol and quantity; it has no
\* broke_in_history key, so get_order_triggers reads the default False
Candidates(E, ot) ==
    {[symbol |-> s, quantity |-> MaxQty, broke_in_history |-> FALSE] :
        s \in {x \in E.symbols : OptionType(x) = ot}}

\* OrderManager._cancel_broker_order / cancelorder: the broker cancels an
\* order only while it is open, and the request itself can fail
CancelSucceeds(border, request_ok) ==
    border # NoOrder /\ border.status = "open" /\ request_ok

\* the broker's record of a tracked order after a cancel request
AfterCancel(border, request_ok) ==
    IF CancelSucceeds(border, request_ok)
    THEN [border EXCEPT !.status = "cancelled"]
    ELSE border

\* the program drops its reference to the side's order: an order still
\* open stays live at the broker, untracked
Untracked(z, ot, border) ==
    IF border # NoOrder /\ border.status = "open"
    THEN [z EXCEPT ![ot] = @ + 1]
    ELSE z

NewOrder(candidate) == [symbol |-> candidate.symbol, quantity |-> candidate.quantity]
NewBrokerOrder(candidate) ==
    [status |-> "open", quantity |-> candidate.quantity, filled_quantity |-> 0]

\* process_tick after the directive of one side was acted on: the Call
\* side, the Put side, then the fill check of step 6
PollBetweenSides(ot) == "check_fills"
AfterDirective(ot) == IF ot = "CE" THEN "manage_PE" ELSE "check_fills"

\* process_tick step 5 for one side: the directive, the admission check
\* and OrderManager.manage_limit_order_for_type
ManageOrders(E, ot) ==
    /\ pc = (IF ot = "CE" THEN "idle" ELSE "manage_PE")
    /\ \E candidate \in Candidates(E, ot) \cup {NoCandidate},
          price_broke \in BOOLEAN, cancel_ok \in E.ok, place_ok \in E.ok :
        LET existing == pending_limit_orders[ot]
            border == broker_entry[ot]
            action == OrderTrigger(candidate, existing, price_broke)
            can_open == candidate # NoCandidate /\
                        CanOpenPosition(open_positions, daily_exit_triggered,
                                        candidate.symbol, ot)
            \* manage_limit_order_for_type(option_type, None, None)
            case1 == action = "cancel" \/ (action = "place" /\ ~can_open)
            managed == action = "place" /\ can_open
            cancelled == AfterCancel(border, cancel_ok)
            \* the order is forgotten or replaced while still open
            leaks == /\ IsOrder(existing)
                     /\ cancelled.status = "open"
                     /\ case1 \/ (managed /\ place_ok
                                         /\ existing.symbol # candidate.symbol)
        IN
        \* an ignored cancel failure leaves one more live order behind
        /\ leaks => zombies[ot] < E.zombies
        \* the rejection is remembered up to the side's next directive
        /\ rejections' = [rejections EXCEPT ![ot] = NoOrder]
        /\ IF case1 /\ IsOrder(existing)
           THEN \* Case 1: cancel (result ignored), forget the order
                /\ pending_limit_orders' = [pending_limit_orders EXCEPT ![ot] = Absent]
                /\ pending_keys' = DelKey(pending_keys, ot)
                /\ broker_entry' = [broker_entry EXCEPT ![ot] = NoOrder]
                /\ zombies' = Untracked(zombies, ot, cancelled)
                /\ UNCHANGED submitted
           ELSE IF managed /\ ~IsOrder(existing)
           THEN \* Case 2: no order tracked, place one
                /\ submitted' = submitted \cup {ot}
                /\ IF place_ok
                   THEN /\ pending_limit_orders' =
                              [pending_limit_orders EXCEPT ![ot] = NewOrder(candidate)]
                        /\ pending_keys' = SetKey(pending_keys, ot)
                        /\ broker_entry' =
                              [broker_entry EXCEPT ![ot] = NewBrokerOrder(candidate)]
                   ELSE UNCHANGED <<pending_limit_orders, pending_keys, broker_entry>>
                /\ UNCHANGED zombies
           ELSE IF managed /\ existing.symbol # candidate.symbol
           THEN \* Case 3: cancel the old order (result ignored), place the new
                /\ submitted' = submitted \cup {ot}
                /\ IF place_ok
                   THEN /\ pending_limit_orders' =
                              [pending_limit_orders EXCEPT ![ot] = NewOrder(candidate)]
                        /\ broker_entry' =
                              [broker_entry EXCEPT ![ot] = NewBrokerOrder(candidate)]
                        /\ zombies' = Untracked(zombies, ot, cancelled)
                   ELSE \* 'failed': the old order stays tracked
                        /\ broker_entry' = [broker_entry EXCEPT ![ot] = cancelled]
                        /\ UNCHANGED <<pending_limit_orders, zombies>>
                /\ UNCHANGED pending_keys
           ELSE \* 'none', 'kept', or a directive that manages nothing
                UNCHANGED <<pending_limit_orders, pending_keys, broker_entry,
                            zombies, submitted>>
    /\ pc' = AfterDirective(ot)
    /\ steps' = Append(steps, IF ot = "CE" THEN "directive_CE" ELSE "directive_PE")
    /\ UNCHANGED <<active_sl_orders, consecutive_sl_failures, open_positions,
                   closed_positions, daily_exit_triggered, daily_exit_reason,
                   fills, sl_orders_missing, broker_stop,
                   trades, last_fill, exits, alerts, stop_done, liq>>
    /\ UNCHANGED <<other_vars, order_book, position_book>>

\* ------------------------------------------------------------ the broker
\* the broker fills the side's tracked entry order, wholly or in part
BrokerFillsEntry(E, ot) ==
    /\ pc \in {"idle", "check_fills"}
    /\ broker_entry[ot] # NoOrder
    /\ broker_entry[ot].status = "open"
    /\ trades < E.trades
    /\ \E filled \in (IF E.partial THEN 1 .. broker_entry[ot].quantity
                                   ELSE {broker_entry[ot].quantity}) :
        broker_entry' = [broker_entry EXCEPT
                            ![ot] = [@ EXCEPT !.status = "complete",
                                              !.filled_quantity = filled]]
    /\ trades' = trades + 1
    /\ UNCHANGED <<pc, program_vars, broker_stop, zombies, ghost_vars>>
    /\ UNCHANGED outside_trading

\* the broker rejects the side's tracked entry order
BrokerRejectsEntry(ot) ==
    /\ pc \in {"idle", "check_fills"}
    /\ broker_entry[ot] # NoOrder
    /\ broker_entry[ot].status = "open"
    /\ broker_entry' = [broker_entry EXCEPT ![ot] = [@ EXCEPT !.status = "rejected"]]
    /\ UNCHANGED <<pc, program_vars, broker_stop, zombies, trades, ghost_vars>>
    /\ UNCHANGED outside_trading

\* the broker triggers or cancels the tracked stop order of a symbol
BrokerEndsStop(symbol) ==
    /\ pc = "idle"
    /\ broker_stop[symbol] # NoOrder
    /\ broker_stop[symbol].status = "open"
    /\ \E status \in {"complete", "cancelled"} :
        broker_stop' = [broker_stop EXCEPT ![symbol] = [status |-> status]]
    /\ UNCHANGED <<pc, program_vars, broker_entry, zombies, trades, ghost_vars>>
    /\ UNCHANGED outside_trading

\* an untracked entry order ends at the broker
ZombieEnds(ot) ==
    /\ pc = "idle"
    /\ zombies[ot] > 0
    /\ zombies' = [zombies EXCEPT ![ot] = @ - 1]
    /\ UNCHANGED <<pc, program_vars, broker_entry, broker_stop, trades, ghost_vars>>
    /\ UNCHANGED outside_trading

\* ------------------------------------------------------------ fills
\* OrderManager.check_fills_by_type, one tracked entry: the value the
\* dict holds for the side afterwards
PolledValue(order, border) ==
    IF order = NoneMarker THEN Absent
    ELSE IF ~IsOrder(order) THEN order
    ELSE IF border.status = "rejected" THEN NoneMarker
    ELSE IF border.status = "complete" THEN Absent
    ELSE order

\* the quantity check_fills_by_type reports for a completed order
PolledQuantity(order, border) == border.filled_quantity

\* the quantity reconcile_orders_with_broker reports for a completed order
ReconciledQuantity(order, border) == border.quantity

FillInfo(ot, order, border, quantity, path) ==
    [option_type |-> ot, symbol |-> order.symbol, quantity |-> quantity,
     candidate_quantity |-> order.quantity,
     broker_filled |-> border.filled_quantity, path |-> path]

\* the fills check_fills_by_type returns, CE before PE
PolledFills(pending, book) ==
    LET fill(ot) ==
            IF IsOrder(pending[ot]) /\ book[ot].status = "complete"
            THEN <<FillInfo(ot, pending[ot], book[ot],
                            PolledQuantity(pending[ot], book[ot]), "poll")>>
            ELSE << >>
    IN fill("CE") \o fill("PE")

\* process_tick step 6, first half: OrderManager.check_fills_by_type
CheckFills(E) ==
    /\ pc = "check_fills"
    /\ \E book_ok \in E.ok :
        IF pending_keys = << >> \/ ~book_ok
        THEN /\ pc' = "ledger"
             /\ fills' = << >>
             /\ UNCHANGED <<pending_limit_orders, pending_keys, broker_entry,
                            rejections>>
        ELSE /\ pending_limit_orders' =
                    [ot \in Sides |->
                        PolledValue(pending_limit_orders[ot], broker_entry[ot])]
             /\ pending_keys' =
                    SelectSeq(pending_keys,
                              LAMBDA ot : pending_limit_orders'[ot] # Absent)
             /\ broker_entry' =
                    [ot \in Sides |->
                        IF IsOrder(pending_limit_orders'[ot])
                        THEN broker_entry[ot] ELSE NoOrder]
             /\ fills' = PolledFills(pending_limit_orders, broker_entry)
             /\ rejections' =
                    [ot \in Sides |->
                        IF pending_limit_orders'[ot] = NoneMarker
                           /\ IsOrder(pending_limit_orders[ot])
                        THEN pending_limit_orders[ot] ELSE rejections[ot]]
             /\ pc' = (IF fills' = << >> THEN "ledger" ELSE "handle")
    /\ submitted' = {}
    /\ steps' = Append(steps, "check_fills")
    /\ UNCHANGED <<active_sl_orders, consecutive_sl_failures, open_positions,
                   closed_positions, daily_exit_triggered, daily_exit_reason,
                   sl_orders_missing, broker_stop, zombies, trades,
                   last_fill, exits, alerts, stop_done, liq>>
    /\ UNCHANGED <<other_vars, order_book, position_book>>

\* ------------------------------------------------------------ ledger
RECURSIVE SumPnl(_, _)
SumPnl(positions, symbols) ==
    IF symbols = {} THEN 0
    ELSE LET s == CHOOSE x \in symbols : TRUE
         IN positions[s].unrealized_pnl + SumPnl(positions, symbols \ {s})

\* PositionTracker.add_position: the position a fill opens
NewPosition(fill) ==
    [quantity |-> fill.quantity, actual_R |-> fill.candidate_quantity,
     unrealized_pnl |-> 0]

\* PositionTracker.close_position for a set of symbols, at the positions'
\* current prices: the ledger and the closed list afterwards
LedgerAfterClose(positions, symbols) ==
    [s \in Symbols |-> IF s \in symbols THEN Absent ELSE positions[s]]

ClosedAfterClose(closed, positions, symbols) ==
    LET closing == symbols \cap OpenSymbols(positions)
    IN [realized_pnl |-> closed.realized_pnl + SumPnl(positions, closing)]

\* ------------------------------------------------------------ stop orders
\* the quantity handle_order_fill asks place_sl_order to protect
StopQuantity(fill) == fill.quantity

\* a place_sl_order that records nothing
StopsNeverTracked(stops, symbol, quantity, sl_ok) == stops

\* OrderManager.place_sl_order: the tracked stops afterwards
StopsAfterPlace(stops, symbol, quantity, sl_ok) ==
    IF sl_ok THEN [stops EXCEPT ![symbol] = [quantity |-> quantity]] ELSE stops

\* OrderManager.place_sl_order: the failure counter afterwards
FailuresAfterPlace(failures, sl_ok) == IF sl_ok THEN 0 ELSE failures + 1

\* OrderManager.should_halt_trading
ShouldHaltTrading(failures) == failures >= MAX_SL_FAILURE_COUNT

\* ------------------------------------------------------------ emergency exit
\* the outcomes of one emergency_market_exit call that the environment
\* decides: whether the position book could be read, the open quantity it
\* shows for the symbol, and whether one of the market order attempts was
\* accepted
ExitOutcomes(E) ==
    [book : {"success"} \cup (IF FALSE \in E.ok THEN {"unavailable"} ELSE {}),
     reported : 0 .. MaxQty, accepted : E.ok]

\* an emergency exit that never consults the position book
SuppliedQuantity(outcome, supplied) == supplied

\* OrderManager.emergency_market_exit: the quantity of the market order it
\* submits (0: it submits none)
EmergencyQuantity(outcome, supplied) ==
    IF outcome.book = "success" THEN outcome.reported ELSE supplied

\* OrderManager.emergency_market_exit returns an order id
EmergencyExitDone(outcome, supplied) ==
    EmergencyQuantity(outcome, supplied) > 0 /\ outcome.accepted

ExitCall(symbol, supplied, outcome) ==
    [symbol |-> symbol, supplied |-> supplied, book |-> outcome.book,
     reported |-> outcome.reported,
     order_quantity |-> EmergencyQuantity(outcome, supplied),
     accepted |-> EmergencyExitDone(outcome, supplied)]

\* a handler that stays silent when the emergency exit fails
NoManualAlert(sl_ok, exit_done) == FALSE

\* handle_order_fill sends the manual-intervention alert
ManualAlert(sl_ok, exit_done) == ~sl_ok /\ ~exit_done

\* ------------------------------------------------------------ handle_order_fill
\* BaselineV1Live.handle_order_fill for the first waiting fill
HandleOrderFill(E) ==
    /\ pc = "handle"
    /\ \E sl_ok \in E.ok, outcome \in ExitOutcomes(E) :
        LET fill == Head(fills)
            symbol == fill.symbol
            quantity == StopQuantity(fill)
            added == [open_positions EXCEPT ![symbol] = NewPosition(fill)]
            exit_done == ~sl_ok /\ EmergencyExitDone(outcome, fill.quantity)
            alert == ManualAlert(sl_ok, exit_done)
            failures == FailuresAfterPlace(consecutive_sl_failures, sl_ok)
            halt == ~sl_ok /\ ShouldHaltTrading(failures)
        IN
        /\ active_sl_orders' = StopsAfterPlace(active_sl_orders, symbol, quantity, sl_ok)
        /\ broker_stop' = IF sl_ok
                          THEN [broker_stop EXCEPT ![symbol] = [status |-> "open"]]
                          ELSE broker_stop
        /\ consecutive_sl_failures' = failures
        /\ open_positions' = IF exit_done THEN LedgerAfterClose(added, {symbol})
                                          ELSE added
        /\ closed_positions' = IF exit_done
                               THEN ClosedAfterClose(closed_positions, added, {symbol})
                               ELSE closed_positions
        /\ exits' = IF sl_ok THEN {}
                    ELSE {ExitCall(symbol, fill.quantity, outcome)}
        /\ alerts' = IF alert THEN alerts \cup {symbol} ELSE alerts \ {symbol}
        /\ stop_done' = stop_done \ {symbol}
        /\ last_fill' = [symbol |-> symbol, quantity |-> fill.quantity,
                         broker_filled |-> fill.broker_filled, path |-> fill.path,
                         sl_ok |-> sl_ok, sl_quantity |-> quantity,
                         exit_done |-> exit_done,
                         alert_quantity |-> IF alert THEN fill.quantity ELSE 0]
        /\ fills' = IF halt THEN << >> ELSE Tail(fills)
        /\ pc' = IF halt THEN "halt"
                 ELSE IF Tail(fills) # << >> THEN "handle"
                 ELSE IF fill.path = "reconcile" THEN "reconciled"
                 ELSE "ledger"
    /\ UNCHANGED <<pending_limit_orders, pending_keys, daily_exit_triggered,
                   daily_exit_reason, sl_orders_missing,
                   broker_entry, zombies, trades, submitted, liq>>
    /\ order_book' = NoBook
    /\ steps' = Append(steps, "handle_order_fill")
    /\ UNCHANGED <<other_vars, position_book, rejections>>

\* ------------------------------------------------------------ cancel_all_orders
RECURSIVE SeqOf(_)
SeqOf(S) ==
    IF S = {} THEN << >>
    ELSE LET x == CHOOSE y \in S : TRUE IN <<x>> \o SeqOf(S \ {x})

TrackedEntries == {ot \in Sides : IsOrder(pending_limit_orders[ot])}
TrackedStops == {s \in Symbols : active_sl_orders[s] # Absent}

\* position, in the pending dict's order, of the first key that holds
\* None (Len + 1: no key does): order_info['order_id'] raises there
FirstNone ==
    LET marker(i) == pending_limit_orders[pending_keys[i]] = NoneMarker
    IN IF \E i \in DOMAIN pending_keys : marker(i)
       THEN CHOOSE i \in DOMAIN pending_keys :
                marker(i) /\ \A j \in 1 .. (i - 1) : ~marker(j)
       ELSE Len(pending_keys) + 1

\* OrderManager.cancel_all_orders: cancel_limit_order for every key of the
\* pending dict, in the dict's order, then cancel_sl_order for every
\* tracked stop.  cancel_limit_order reads order_info['order_id'] outside
\* its try block, so a key that holds None raises and ends the sweep.
\* request_ok: the outcome of each cancel request.
CancelAllOrders(request_ok) ==
    LET first == FirstNone
        raised == first <= Len(pending_keys)
        reached == {pending_keys[i] : i \in 1 .. (first - 1)}
        done(ot) == ot \in reached /\ CancelSucceeds(broker_entry[ot], request_ok[ot])
        sl_done(s) == /\ ~raised
                      /\ s \in TrackedStops
                      /\ CancelSucceeds(broker_stop[s], request_ok[s])
    IN [raised |-> raised,
        pending |-> [ot \in Sides |->
                        IF done(ot) THEN Absent ELSE pending_limit_orders[ot]],
        keys |-> SelectSeq(pending_keys, LAMBDA ot : ~done(ot)),
        broker_entry |-> [ot \in Sides |->
                        IF done(ot) THEN NoOrder ELSE broker_entry[ot]],
        stops |-> [s \in Symbols |->
                        IF sl_done(s) THEN Absent ELSE active_sl_orders[s]],
        broker_stop |-> [s \in Symbols |->
                        IF sl_done(s) THEN NoOrder ELSE broker_stop[s]],
        calls |-> [k \in 1 .. (first - 1) |->
                        [op |-> "cancel", key |-> pending_keys[k]]]
                  \o (IF raised THEN << >>
                      ELSE [k \in 1 .. Cardinality(TrackedStops) |->
                              [op |-> "cancel", key |-> SeqOf(TrackedStops)[k]]])]

\* ------------------------------------------------------------ daily exit
\* PositionTracker.update_prices: unrealized P&L of every open position
\* after the prices moved (move: entry price minus current price, the
\* same for every symbol in one cycle)
UpdatePrices(positions, move) ==
    [s \in Symbols |->
        IF positions[s] = Absent THEN Absent
        ELSE [positions[s] EXCEPT !.unrealized_pnl = move * positions[s].quantity]]

\* PositionTracker.get_cumulative_R reaches a threshold.  Every position
\* carries the same actual_R (the candidate quantity times one stop
\* distance), so R is the P&L divided by MaxQty.
CumulativePnl(closed, positions) ==
    closed.realized_pnl + SumPnl(positions, OpenSymbols(positions))

\* PositionTracker.check_daily_exit: the reason it returns ("None": none)
CheckDailyExit(triggered, reason, closed, positions) ==
    IF triggered THEN reason
    ELSE IF CumulativePnl(closed, positions) >= DAILY_TARGET_R * MaxQty
         THEN "+5R_TARGET"
    ELSE IF CumulativePnl(closed, positions) <= DAILY_STOP_R * MaxQty
         THEN "-5R_STOP"
    ELSE "None"

\* the market orders PositionTracker.close_all_positions submits
MarketCalls(positions) ==
    LET open == SeqOf(OpenSymbols(positions))
    IN [k \in 1 .. Len(open) |->
            [op |-> "market", key |-> open[k],
             quantity |-> positions[open[k]].quantity]]

\* BaselineV1Live.handle_daily_exit: cancel_all_orders, then
\* PositionTracker.close_all_positions (a market order per position, the
\* position closed in the ledger whatever the broker answers).  An
\* exception of the sweep leaves the method before any market order.
HandleDailyExit(E, priced) ==
    \E request_ok \in [TrackedEntries \cup TrackedStops -> E.ok] :
    \E swept \in {CancelAllOrders(request_ok)} :
        /\ pending_limit_orders' = swept.pending
        /\ pending_keys' = swept.keys
        /\ broker_entry' = swept.broker_entry
        /\ liq' = [positions |-> {[symbol |-> s, quantity |-> priced[s].quantity] :
                                    s \in OpenSymbols(priced)},
                   tracked |-> TrackedEntries \cup TrackedStops,
                   calls |-> swept.calls \o
                             (IF swept.raised THEN << >> ELSE MarketCalls(priced))]
        /\ IF swept.raised
           THEN /\ open_positions' = priced
                /\ UNCHANGED <<active_sl_orders, broker_stop,
                               closed_positions, alerts, stop_done>>
           ELSE /\ active_sl_orders' = swept.stops
                /\ broker_stop' = swept.broker_stop
                /\ open_positions' = [s \in Symbols |-> Absent]
                /\ closed_positions' =
                        ClosedAfterClose(closed_positions, priced, OpenSymbols(priced))
                /\ alerts' = {}
                /\ stop_done' = {}

\* the quantity the position book can show for a symbol, 0 for a symbol it
\* does not show (the rows reconcile_with_broker skips included).  The
\* broker shows a position flat only once no stop order of it is open.
BrokerQuantities(E, priced, s) ==
    IF priced[s] # Absent
    THEN {priced[s].quantity}
         \cup (IF broker_stop[s] = NoOrder \/ broker_stop[s].status # "open"
               THEN {0} ELSE {})
         \cup (IF s \in E.mismatch THEN 1 .. MaxQty ELSE {})
    ELSE {0} \cup (IF s \in E.mismatch THEN 1 .. MaxQty ELSE {})

PositionBooks(E, priced) ==
    {book \in [Symbols -> 0 .. MaxQty] :
        \A s \in Symbols : book[s] \in BrokerQuantities(E, priced, s)}

\* reconcile_with_broker, check 1: the symbols tracked and not in the book
PhantomSymbols(priced, book) == {s \in OpenSymbols(priced) : book[s] = 0}

\* a ledger that follows the position book: phantom positions closed,
\* orphaned positions adopted, quantities corrected
LedgerFollowingBook(priced, book) ==
    [s \in Symbols |->
        IF book[s] = 0 THEN Absent
        ELSE IF priced[s] = Absent
             THEN [quantity |-> book[s], actual_R |-> MaxQty, unrealized_pnl |-> 0]
        ELSE [priced[s] EXCEPT !.quantity = book[s]]]

\* the ledger reconcile_with_broker leaves: the phantom positions closed,
\* orphaned positions and quantity mismatches only alerted
LedgerAfterReconcile(priced, book) ==
    LedgerAfterClose(priced, PhantomSymbols(priced, book))

\* PositionTracker.reconcile_with_broker.  When it is not due, or the
\* position book cannot be read, it changes nothing; otherwise the
\* phantom positions are closed at their current price.
ReconcileWithBroker(E, priced, move) ==
    /\ \E ran \in BOOLEAN :
       \E book \in (IF ran THEN PositionBooks(E, priced)
                            ELSE {[s \in Symbols |-> 0]}) :
       \E phantom \in {IF ran THEN PhantomSymbols(priced, book) ELSE {}} :
        /\ open_positions' = (IF ran THEN LedgerAfterReconcile(priced, book)
                                     ELSE priced)
        /\ closed_positions' = ClosedAfterClose(closed_positions, priced, phantom)
        /\ alerts' = alerts \ phantom
        /\ stop_done' = stop_done \ phantom
        /\ position_book' = (IF ran THEN [quantity |-> book, move |-> move,
                                          closed |-> phantom,
                                          exit_reason |-> "SL_HIT_RECONCILED"]
                                    ELSE NoBook)
    /\ UNCHANGED <<pending_limit_orders, pending_keys, broker_entry,
                   active_sl_orders, broker_stop, liq>>

\* process_tick steps 7 and 8: update_prices, check_daily_exit, then
\* handle_daily_exit (whose exception ends the cycle) or the periodic
\* reconcile_with_broker
UpdateAndCheckExit(E) ==
    /\ pc = "ledger"
    /\ \E move \in E.moves :
       \E priced \in {UpdatePrices(open_positions, move)} :
       \E exit_reason \in {CheckDailyExit(daily_exit_triggered, daily_exit_reason,
                                          closed_positions, priced)} :
        /\ daily_exit_triggered' = (exit_reason # "None")
        /\ daily_exit_reason' = exit_reason
        /\ IF exit_reason # "None"
           THEN HandleDailyExit(E, priced) /\ position_book' = NoBook
           ELSE ReconcileWithBroker(E, priced, move)
    /\ pc' = "end"
    /\ last_fill' = NoFill
    /\ exits' = {}
    /\ UNCHANGED <<consecutive_sl_failures, fills,
                   sl_orders_missing, zombies, trades, submitted>>
    /\ steps' = Append(steps, "update_prices")
    /\ UNCHANGED <<other_vars, order_book, rejections>>

\* ------------------------------------------------------------ emergency shutdown
\* BaselineV1Live.handle_emergency_shutdown: cancel_all_orders, then an
\* emergency_market_exit for every open position, closed in the ledger
\* when the exit returned an order id.  The callers raise SystemExit
\* after it; an exception of the sweep is re-raised and reaches the main
\* loop's handler instead, which goes on to the next iteration.
HandleEmergencyShutdown(E) ==
    /\ pc = "halt"
    /\ \E request_ok \in [TrackedEntries \cup TrackedStops -> E.ok] :
       \E swept \in {CancelAllOrders(request_ok)} :
        /\ pending_limit_orders' = swept.pending
        /\ pending_keys' = swept.keys
        /\ broker_entry' = swept.broker_entry
        /\ IF swept.raised
           THEN /\ pc' = "end"
                /\ exits' = {}
                /\ UNCHANGED <<active_sl_orders, broker_stop, open_positions,
                               closed_positions, alerts, stop_done>>
           ELSE \E outcome \in [OpenSymbols(open_positions) -> ExitOutcomes(E)] :
                \E done \in {{s \in OpenSymbols(open_positions) :
                                EmergencyExitDone(outcome[s],
                                                  open_positions[s].quantity)}} :
                /\ pc' = "exited"
                /\ active_sl_orders' = swept.stops
                /\ broker_stop' = swept.broker_stop
                /\ exits' = {ExitCall(s, open_positions[s].quantity, outcome[s]) :
                                s \in OpenSymbols(open_positions)}
                /\ open_positions' = LedgerAfterClose(open_positions, done)
                /\ closed_positions' =
                        ClosedAfterClose(closed_positions, open_positions, done)
                /\ alerts' = alerts \ done
                /\ stop_done' = stop_done \ done
    /\ fills' = << >>
    /\ sl_orders_missing' = {}
    /\ last_fill' = NoFill
    /\ UNCHANGED <<consecutive_sl_failures, daily_exit_triggered,
                   daily_exit_reason, zombies, trades, submitted, liq>>
    /\ UNCHANGED outside_trading

\* ------------------------------------------------------------ reconnect
\* OrderManager.reconcile_orders_with_broker.  purged: the tracked orders
\* that ended at the broker and that the order book no longer lists.
\* A key of the pending dict that holds None raises inside the method's
\* try block: it returns the results gathered so far.
ReconcileOrdersWithBroker(purged) ==
    LET first == FirstNone
        raised == first <= Len(pending_keys)
        reached == {pending_keys[i] : i \in 1 .. (first - 1)}
        filled(ot) == /\ ot \in reached
                      /\ ot \notin purged
                      /\ broker_entry[ot].status = "complete"
        drop(ot) == (ot \in reached /\ ot \in purged) \/ filled(ot)
        ended(s) == broker_stop[s].status \in {"rejected", "cancelled"}
        sl_gone(s) == /\ ~raised
                      /\ s \in TrackedStops
                      /\ IF s \in purged THEN open_positions[s] = Absent
                         ELSE \/ broker_stop[s].status = "complete"
                              \/ ended(s) /\ open_positions[s] = Absent
        fill(i) == IF filled(pending_keys[i])
                   THEN <<FillInfo(pending_keys[i],
                                   pending_limit_orders[pending_keys[i]],
                                   broker_entry[pending_keys[i]],
                                   ReconciledQuantity(
                                       pending_limit_orders[pending_keys[i]],
                                       broker_entry[pending_keys[i]]),
                                   "reconcile")>>
                   ELSE << >>
    IN [pending |-> [ot \in Sides |->
                        IF drop(ot) THEN Absent ELSE pending_limit_orders[ot]],
        keys |-> SelectSeq(pending_keys, LAMBDA ot : ~drop(ot)),
        broker_entry |-> [ot \in Sides |->
                        IF drop(ot) THEN NoOrder ELSE broker_entry[ot]],
        fills |-> (IF first > 1 THEN fill(1) ELSE << >>)
                  \o (IF first > 2 THEN fill(2) ELSE << >>),
        stops |-> [s \in Symbols |->
                        IF sl_gone(s) THEN Absent ELSE active_sl_orders[s]],
        broker_stop |-> [s \in Symbols |->
                        IF sl_gone(s) THEN NoOrder ELSE broker_stop[s]],
        done |-> {s \in OpenSymbols(open_positions) : sl_gone(s)},
        missing |-> IF raised THEN {}
                    ELSE {s \in OpenSymbols(open_positions) :
                            \/ active_sl_orders[s] = Absent
                            \/ s \notin purged /\ ended(s)}]

\* the tracked orders the broker's book may have dropped: ended entry
\* orders that did not fill, ended stop orders
Purgeable ==
    {ot \in TrackedEntries : broker_entry[ot].status \in {"rejected", "cancelled"}}
    \cup {s \in TrackedStops : broker_stop[s].status # "open"}

\* run_trading_loop, the watchdog branch: the data feed went stale and the
\* loop reconnects; on success it reconciles the orders with the broker,
\* on failure it shuts down
Watchdog(E) ==
    /\ pc = "idle"
    /\ FALSE \in E.ok
    /\ \E reconnected \in E.ok, book_ok \in E.ok, purged \in SUBSET Purgeable :
       \E found \in {ReconcileOrdersWithBroker(purged)} :
        IF ~reconnected
        THEN /\ pc' = "halt"
             /\ order_book' = NoBook
             /\ UNCHANGED <<pending_limit_orders, pending_keys, broker_entry,
                            active_sl_orders, broker_stop, fills,
                            sl_orders_missing, stop_done>>
        ELSE IF ~book_ok
        THEN /\ pc' = "reconciled"
             /\ order_book' = NoBook
             /\ UNCHANGED <<pending_limit_orders, pending_keys, broker_entry,
                            active_sl_orders, broker_stop, fills,
                            sl_orders_missing, stop_done>>
        ELSE /\ order_book' = [purged |-> purged,
                               untracked |-> {s \in OpenSymbols(open_positions) :
                                                active_sl_orders[s] = Absent}]
             /\ pending_limit_orders' = found.pending
             /\ pending_keys' = found.keys
             /\ broker_entry' = found.broker_entry
             /\ active_sl_orders' = found.stops
             /\ broker_stop' = found.broker_stop
             /\ fills' = found.fills
             /\ sl_orders_missing' = found.missing
             /\ stop_done' = stop_done \cup found.done
             /\ pc' = (IF found.fills = << >> THEN "reconciled" ELSE "handle")
    /\ UNCHANGED <<consecutive_sl_failures, open_positions, closed_positions,
                   daily_exit_triggered, daily_exit_reason, zombies, trades,
                   submitted, last_fill, exits, alerts, liq>>
    /\ UNCHANGED <<other_vars, position_book, rejections, steps>>

\* run_trading_loop, after the reconciled fills were handled: positions
\* reported without a stop order shut the program down
AfterReconcile ==
    /\ pc = "reconciled"
    /\ pc' = (IF sl_orders_missing # {} THEN "halt" ELSE "idle")
    /\ sl_orders_missing' = {}
    /\ last_fill' = NoFill
    /\ exits' = {}
    /\ UNCHANGED <<pending_limit_orders, pending_keys, active_sl_orders,
                   consecutive_sl_failures, open_positions, closed_positions,
                   daily_exit_triggered, daily_exit_reason, fills, broker_vars,
                   submitted, alerts, stop_done, liq>>
    /\ order_book' = NoBook
    /\ steps' = << >>
    /\ UNCHANGED <<other_vars, position_book, rejections>>

\* end of one iteration of run_trading_loop: the loop sleeps and goes round
LoopBack ==
    /\ pc = "end"
    /\ pc' = "idle"
    /\ liq' = NoLiq
    /\ exits' = {}
    /\ UNCHANGED <<program_vars, broker_vars, submitted, last_fill,
                   alerts, stop_done>>
    /\ position_book' = NoBook
    /\ steps' = << >>
    /\ UNCHANGED <<other_vars, order_book, rejections>>

\* ------------------------------------------------------------ swing detector
\* a bar index (1 is Python's 0)
LowWatch(current, prev) == current.high > prev.high /\ current.close > prev.close
HighWatch(current, prev) == current.low < prev.low /\ current.close < prev.close

\* min(range(len(window)), key=low) / max(..., key=high): the first bar of
\* bs[from .. to] with the lowest low / the highest high
FirstLowest(bs, from, to) ==
    CHOOSE k \in from .. to :
        /\ \A m \in from .. to : bs[k].low <= bs[m].low
        /\ \A m \in from .. (k - 1) : bs[m].low > bs[k].low
FirstHighest(bs, from, to) ==
    CHOOSE k \in from .. to :
        /\ \A m \in from .. to : bs[k].high >= bs[m].high
        /\ \A m \in from .. (k - 1) : bs[m].high < bs[k].high

\* watch_count[j] = watch_count.get(j, 0) + 1 for the bars js (a count
\* above 2 never equals 2 again: it is kept at 3)
Bump(count, js) ==
    [j \in DOMAIN count |-> IF j \in js /\ count[j] < 3 THEN count[j] + 1 ELSE count[j]]

\* a swing priced at the bar's close
CreateSwingAtClose(swing_type, bar, idx, vwap) ==
    [type |-> swing_type, price |-> bar.close,
     index |-> idx, vwap |-> vwap, broken |-> FALSE, break_events |-> 0]

\* a swing that keeps the position of the bar inside its window
CreateSwingInWindow(swing_type, bar, idx, vwap) ==
    [type |-> swing_type,
     price |-> IF swing_type = "Low" THEN bar.low ELSE bar.high,
     index |-> idx - 1, vwap |-> vwap, broken |-> FALSE, break_events |-> 0]

\* SwingDetector._create_swing
CreateSwing(swing_type, bar, idx, vwap) ==
    [type |-> swing_type,
     price |-> IF swing_type = "Low" THEN bar.low ELSE bar.high,
     index |-> idx, vwap |-> vwap, broken |-> FALSE, break_events |-> 0]

\* an update that starts the swing afresh
UpdateResetsBroken(last_swing, swing_type, bar, idx) ==
    [last_swing EXCEPT !.price = IF swing_type = "Low" THEN bar.low ELSE bar.high,
                       !.index = idx, !.broken = FALSE]

\* SwingDetector._update_swing_extreme: the last swing, updated in place
\* (vwap and broken are kept)
UpdateSwingExtreme(last_swing, swing_type, bar, idx) ==
    [last_swing EXCEPT !.price = IF swing_type = "Low" THEN bar.low ELSE bar.high,
                       !.index = idx]

\* SwingDetector.add_bar with _find_initial_swing / _find_alternate_swing,
\* bs being the bars with the new one appended: the loop over the earlier
\* bars counts watches until a second watch returns a swing.
AddBar(bs, sw, lw, hw, vwap) ==
    LET i == Len(bs)
        current == bs[i]
        last_swing == IF sw = << >> THEN NoSwing ELSE sw[Len(sw)]
        from == IF last_swing = NoSwing THEN 1 ELSE last_swing.index + 1
        lowest == FirstLowest(bs, from, i)
        highest == FirstHighest(bs, from, i)
        low_two(j) == LowWatch(current, bs[j]) /\ lw[j] = 1
        high_two(j) == HighWatch(current, bs[j]) /\ hw[j] = 1
        returns(j) ==
            IF last_swing = NoSwing THEN low_two(j) \/ high_two(j)
            ELSE IF last_swing.type = "Low"
                 THEN high_two(j) \/ (low_two(j) /\ bs[lowest].low < last_swing.price)
            ELSE low_two(j) \/ (high_two(j) /\ bs[highest].high > last_swing.price)
        stops == {j \in from .. (i - 1) : returns(j)}
        stop == IF stops = {} THEN i ELSE CHOOSE j \in stops : \A k \in stops : j <= k
        visited == {j \in from .. (i - 1) : j <= stop}
        lw2 == Bump(lw, {j \in visited : LowWatch(current, bs[j])})
        hw2 == Bump(hw, {j \in visited : HighWatch(current, bs[j])})
        swing_type == IF low_two(stop) THEN "Low" ELSE "High"
        idx == IF swing_type = "Low" THEN lowest ELSE highest
        zero == [j \in DOMAIN lw |-> 0]
    IN IF stops = {}
       THEN [swings |-> sw, low_watch_count |-> lw2, high_watch_count |-> hw2,
             swing_info |-> NoSwing]
       ELSE IF last_swing # NoSwing /\ last_swing.type = swing_type
       THEN LET updated == UpdateSwingExtreme(last_swing, swing_type, bs[idx], idx)
            IN [swings |-> [sw EXCEPT ![Len(sw)] = updated],
                low_watch_count |-> lw2, high_watch_count |-> hw2,
                swing_info |-> IF swing_type = "Low" THEN updated ELSE NoSwing]
       ELSE LET created == CreateSwing(swing_type, bs[idx], idx, vwap)
            IN [swings |-> Append(sw, created),
                low_watch_count |-> zero, high_watch_count |-> zero,
                swing_info |-> IF swing_type = "Low" THEN created ELSE NoSwing]

\* SwingDetector.check_break: the swings after the bar was checked
CheckBreak(sw, bar) ==
    IF sw = << >> THEN sw
    ELSE LET last_swing == sw[Len(sw)]
         IN IF last_swing.type = "Low" /\ ~last_swing.broken
                                       /\ bar.low < last_swing.price
            THEN [sw EXCEPT ![Len(sw)] =
                        [last_swing EXCEPT !.broken = TRUE,
                                           !.break_events = @ + 1]]
            ELSE sw

\* ------------------------------------------------------------ filter
WithoutSymbol(pool, symbol) == SelectSeq(pool, LAMBDA s : s.symbol # symbol)

\* add_swing_candidate, the two static filters: the price range and the
\* premium of the swing price over the VWAP at the swing (a fraction in
\* the code, percent here; the VWAP of a bar is positive)
RejectedAtBound(swing) ==
    \/ ~(MIN_ENTRY_PRICE <= swing.price /\ swing.price <= MAX_ENTRY_PRICE)
    \/ (swing.price - swing.vwap) * 100 <= MIN_VWAP_PREMIUM * swing.vwap

Rejected(swing) ==
    \/ ~(MIN_ENTRY_PRICE <= swing.price /\ swing.price <= MAX_ENTRY_PRICE)
    \/ (swing.price - swing.vwap) * 100 < MIN_VWAP_PREMIUM * swing.vwap

\* ContinuousFilterEngine.add_swing_candidate for a Low swing: the keys of
\* swing_candidates and the side's pool afterwards.  A rejected swing
\* takes the symbol's earlier swing out of the pool only when
\* swing_candidates has a key for the symbol.  The pool holds a deep copy
\* of the swing; neither filter reads 'broken'.
AddSwing(keys, pool, symbol, swing) ==
    IF Rejected(swing)
    THEN [swing_candidates |-> keys \ {symbol},
          stage1_swings |-> IF symbol \in keys THEN WithoutSymbol(pool, symbol)
                                                ELSE pool]
    ELSE [swing_candidates |-> keys \cup {symbol},
          stage1_swings |->
              Append(WithoutSymbol(pool, symbol),
                     [symbol |-> symbol, price |-> swing.price, index |-> swing.index,
                      vwap |-> swing.vwap, broken |-> swing.broken,
                      broke_in_history |-> "absent"])]

\* add_swing_candidate as the swing callback calls it: nothing deletes a
\* key of swing_candidates there, so a pooled symbol has its key
AddSwingCandidate(pool, symbol, swing) ==
    AddSwing({symbol}, pool, symbol, swing).stage1_swings

\* ContinuousFilterEngine.mark_historical_breaks
MarkHistoricalBreaks(pool, bs) ==
    [k \in DOMAIN pool |->
        [pool[k] EXCEPT !.broke_in_history =
            IF \E i \in (pool[k].index + 1) .. Len(bs) : bs[i].low < pool[k].price
            THEN "True" ELSE "False"]]

\* ContinuousFilterEngine._get_highest_high_since_swing
HighestHighSinceSwing(bs, swing_index) ==
    IF swing_index = Len(bs) THEN bs[swing_index].high
    ELSE bs[FirstHighest(bs, swing_index + 1, Len(bs))].high

\* evaluate_all_candidates, first loop: the swings the latest bar broke
\* leave the pool
Unbroken(pool, latest) == SelectSeq(pool, LAMBDA s : ~(latest.low < s.price))

\* evaluate_all_candidates, the enriched dict of a pooled swing.  It has
\* no 'broke_in_history' key: get_order_triggers reads the default False.
EnrichAt(s, highest_high) ==
    [symbol |-> s.symbol, quantity |-> MaxQty, broke_in_history |-> FALSE,
     swing_low |-> s.price, swing_index |-> s.index,
     sl_points |-> highest_high + 1 - s.price]

Enrich(s, bs) == EnrichAt(s, HighestHighSinceSwing(bs, s.index))

Abs(x) == IF x < 0 THEN 0 - x ELSE x

\* a selection by the stop distance in percent of the entry price
ClosestPercent(candidates) ==
    LET qualified == SelectSeq(candidates, LAMBDA c :
                        /\ ~(c.sl_points * 100 < MIN_SL_PERCENT * c.swing_low)
                        /\ ~(c.sl_points * 100 > MAX_SL_PERCENT * c.swing_low))
        better(c, d) ==
            Abs(c.sl_points * 100 - TARGET_SL_POINTS * c.swing_low) * d.swing_low
                <= Abs(d.sl_points * 100 - TARGET_SL_POINTS * d.swing_low) * c.swing_low
    IN IF qualified = << >> THEN NoCandidate
       ELSE qualified[CHOOSE i \in DOMAIN qualified :
                         \A j \in DOMAIN qualified : better(qualified[i], qualified[j])]

\* evaluate_all_candidates, the selection: of the enriched swings (in pool
\* order) that pass the SL% filter, the first with the least
\* (score, -entry_price)
BestOf(candidates) ==
    LET qualified == SelectSeq(candidates, LAMBDA c :
                        /\ ~(c.sl_points * 100 < MIN_SL_PERCENT * c.swing_low)
                        /\ ~(c.sl_points * 100 > MAX_SL_PERCENT * c.swing_low))
        score(c) == Abs(c.sl_points - TARGET_SL_POINTS)
        better(c, d) == score(c) < score(d)
                        \/ (score(c) = score(d) /\ c.swing_low >= d.swing_low)
        least(i) == \A j \in DOMAIN qualified : better(qualified[i], qualified[j])
    IN IF qualified = << >> THEN NoCandidate
       ELSE qualified[CHOOSE i \in DOMAIN qualified :
                         least(i) /\ \A j \in 1 .. (i - 1) : ~least(j)]

\* evaluate_all_candidates for the pool of one symbol's side
EvaluateAllCandidates(pool, bs) ==
    BestOf([k \in DOMAIN pool |-> Enrich(pool[k], bs)])

\* MultiSwingDetector.update for FeedSymbol: add_bar, the callback
\* (_on_swing_detected -> add_swing_candidate) for a Low swing, then
\* check_break.  The bar's VWAP is read only when the bar becomes a swing.
Update(bar, vwap) ==
    LET found == AddBar(Append(bars, bar), swings, low_watch_count,
                        high_watch_count, vwap)
    IN [bars |-> Append(bars, bar),
        low_watch_count |-> found.low_watch_count,
        high_watch_count |-> found.high_watch_count,
        swing_info |-> found.swing_info,
        stage1_swings |-> IF found.swing_info = NoSwing THEN stage1_swings
                          ELSE AddSwingCandidate(stage1_swings, FeedSymbol,
                                                 found.swing_info),
        swings |-> CheckBreak(found.swings, bar)]

\* update_all with a bar the detector already holds: add_bar skips the
\* duplicate and check_break finds nothing new
Duplicate ==
    [bars |-> bars, low_watch_count |-> low_watch_count,
     high_watch_count |-> high_watch_count, swing_info |-> NoSwing,
     stage1_swings |-> stage1_swings, swings |-> swings]

\* start(): one bar of the backfilled window goes through the detector
HistoricalBar ==
    /\ is_historical_processing
    /\ Len(bars) < MaxBars
    /\ \E bar \in Bars, vwap \in Vwaps :
       \E updated \in {Update(bar, vwap)} :
        /\ bars' = updated.bars
        /\ swings' = updated.swings
        /\ low_watch_count' = updated.low_watch_count
        /\ high_watch_count' = updated.high_watch_count
        /\ swing_info' = updated.swing_info
        /\ stage1_swings' = updated.stage1_swings
    /\ UNCHANGED <<is_historical_processing, current_best, trigger, trading_vars, audit_vars, link_vars, shutdown_flag, call_vars, unit_vars>>

\* start(), after the backfilled bars: mark_historical_breaks, then
\* enable_live_mode
GoLive ==
    /\ is_historical_processing
    /\ stage1_swings' = MarkHistoricalBreaks(stage1_swings, bars)
    /\ is_historical_processing' = FALSE
    /\ swing_info' = NoSwing
    /\ UNCHANGED <<bars, swings, low_watch_count, high_watch_count,
                   current_best, trigger, trading_vars, audit_vars, link_vars, shutdown_flag, call_vars, unit_vars>>

\* process_tick steps 1 to 5 for FeedSymbol's side, no entry order being
\* tracked: update_all with the latest completed bar, then
\* evaluate_all_candidates, then get_order_triggers at the real-time price
LiveTick ==
    /\ ~is_historical_processing
    /\ \E price_broke \in BOOLEAN :
       \E updated \in (IF Len(bars) < MaxBars
                       THEN {Update(bar, vwap) : bar \in Bars, vwap \in Vwaps}
                       ELSE {})
                      \cup (IF bars # << >> THEN {Duplicate} ELSE {}) :
       \E pool \in {Unbroken(updated.stage1_swings,
                             updated.bars[Len(updated.bars)])} :
        /\ bars' = updated.bars
        /\ swings' = updated.swings
        /\ low_watch_count' = updated.low_watch_count
        /\ high_watch_count' = updated.high_watch_count
        /\ swing_info' = updated.swing_info
        /\ stage1_swings' = pool
        /\ current_best' = EvaluateAllCandidates(pool, updated.bars)
        /\ trigger' = OrderTrigger(current_best', Absent, price_broke)
    /\ UNCHANGED <<is_historical_processing, trading_vars, audit_vars, link_vars,
                   shutdown_flag, call_vars, unit_vars>>

\* the swing detector and the filter of one symbol, from the backfill on
NextFeed ==
    \/ HistoricalBar
    \/ GoLive
    \/ LiveTick

SpecFeed == Init /\ [][NextFeed]_vars

\* MultiSwingDetector.update with a bar that carries the timestamp of the
\* k-th bar the detector holds, and its prices: add_bar returns at the
\* timestamp check, the callback gets nothing, check_break reads the
\* bar's low
StaleBar ==
    /\ \E k \in 1 .. Len(bars) : swings' = CheckBreak(swings, bars[k])
    /\ swing_info' = NoSwing
    /\ UNCHANGED <<bars, low_watch_count, high_watch_count, is_historical_processing,
                   stage1_swings, current_best, trigger, trading_vars, audit_vars,
                   link_vars, shutdown_flag, call_vars, unit_vars>>

\* the detector when bars can come again
SpecStale == Init /\ [][NextFeed \/ StaleBar]_vars

\* ------------------------------------------------------------ reconnect
\* The data pipeline of one subscribed symbol.  Two threads can call
\* DataPipeline.reconnect: the decision loop (its watchdog, synchronously)
\* and the thread the connection monitor starts.  Time is counted in bar
\* intervals (minutes); bar m covers the minute m.
outside_link == <<trading_vars, feed_vars, audit_vars, shutdown_flag, call_vars, unit_vars>>

\* the feed stops delivering ticks (socket alive or not)
FeedDies ==
    /\ driver # "exited"
    /\ feed = "flowing"
    /\ feed' = "dead"
    /\ outage' = {}
    /\ UNCHANGED <<is_reconnecting, is_connected, subscribed_symbols,
                   last_bar_timestamp, pipeline_bars, rpc, attempt, result,
                   driver, now, exhausted>>
    /\ UNCHANGED outside_link

\* a minute ends.  _on_quote_update completes the bar of the minute at the
\* first tick of the next one and stamps the time it was received; without
\* ticks the bar in progress is never completed.
MinuteEnds ==
    /\ driver # "exited"
    /\ now < MaxMinutes
    /\ now' = now + 1
    /\ IF feed = "flowing" /\ is_connected /\ subscribed_symbols
       THEN /\ pipeline_bars' = pipeline_bars \cup {now}
            /\ last_bar_timestamp' = [at |-> now + 1]
            /\ UNCHANGED outage
       ELSE /\ outage' = outage \cup {now}
            /\ UNCHANGED <<pipeline_bars, last_bar_timestamp>>
    /\ UNCHANGED <<is_reconnecting, is_connected, subscribed_symbols, rpc,
                   attempt, result, driver, feed, exhausted>>
    /\ UNCHANGED outside_link

\* _connection_monitor_loop, an iteration that finds the socket
\* disconnected or the ticks missing, and _trigger_auto_reconnect: both
\* read the guard flag without the lock and start a thread on reconnect
MonitorTriggers ==
    /\ driver # "exited"
    /\ rpc["monitor"] = "none"
    /\ ~is_reconnecting
    /\ ~is_connected \/ (subscribed_symbols /\ feed = "dead")
    /\ rpc' = [rpc EXCEPT !["monitor"] = "call"]
    /\ result' = [result EXCEPT !["monitor"] = "none"]
    /\ UNCHANGED <<is_reconnecting, is_connected, subscribed_symbols,
                   last_bar_timestamp, pipeline_bars, attempt, driver, feed,
                   now, outage, exhausted>>
    /\ UNCHANGED outside_link

\* run_trading_loop, the watchdog: check_data_freshness finds the data
\* stale and the loop calls reconnect
LoopTriggers ==
    /\ driver = "running"
    /\ subscribed_symbols /\ feed = "dead"
    /\ driver' = "reconnecting"
    /\ rpc' = [rpc EXCEPT !["loop"] = "call"]
    /\ result' = [result EXCEPT !["loop"] = "none"]
    /\ UNCHANGED <<is_reconnecting, is_connected, subscribed_symbols,
                   last_bar_timestamp, pipeline_bars, attempt, feed, now,
                   outage, exhausted>>
    /\ UNCHANGED outside_link

\* a guard that refuses no call
NeverRefused == FALSE

\* reconnect, the guard: a call made while another is in progress
ReconnectRefused == is_reconnecting

\* reconnect, entry: under the lock the flag is tested and set; a call
\* without subscribed symbols returns False through the finally clause
Enter(t) ==
    /\ driver # "exited"
    /\ rpc[t] = "call"
    /\ IF ReconnectRefused
       THEN /\ rpc' = [rpc EXCEPT ![t] = "none"]
            /\ result' = [result EXCEPT ![t] = "False"]
            /\ UNCHANGED <<is_reconnecting, attempt>>
       ELSE IF ~subscribed_symbols
       THEN /\ rpc' = [rpc EXCEPT ![t] = "none"]
            /\ result' = [result EXCEPT ![t] = "False"]
            /\ UNCHANGED <<is_reconnecting, attempt>>
       ELSE /\ is_reconnecting' = TRUE
            /\ rpc' = [rpc EXCEPT ![t] = "attempt"]
            /\ attempt' = [attempt EXCEPT ![t] = 1]
            /\ UNCHANGED result
    /\ UNCHANGED <<is_connected, subscribed_symbols, last_bar_timestamp,
                   pipeline_bars, driver, feed, now, outage, exhausted>>
    /\ UNCHANGED outside_link

\* reconnect, the end of a failed attempt: the next attempt, or after
\* WEBSOCKET_MAX_RECONNECT_ATTEMPTS the return of False; the finally
\* clause clears the flag
NextAttempt(t) ==
    IF attempt[t] < WEBSOCKET_MAX_RECONNECT_ATTEMPTS
    THEN /\ attempt' = [attempt EXCEPT ![t] = @ + 1]
         /\ rpc' = [rpc EXCEPT ![t] = "attempt"]
         /\ UNCHANGED <<is_reconnecting, result, exhausted>>
    ELSE /\ rpc' = [rpc EXCEPT ![t] = "none"]
         /\ result' = [result EXCEPT ![t] = "False"]
         /\ is_reconnecting' = FALSE
         /\ exhausted' = exhausted \cup {t}
         /\ UNCHANGED attempt

\* reconnect, one attempt up to the resubscription: connect raises, or
\* the socket connects, the bar state and the timestamps are cleared, and
\* subscribe_quote raises or succeeds
Attempt(t) ==
    /\ driver # "exited"
    /\ rpc[t] = "attempt"
    /\ \E outcome \in {"connect_raises", "subscribe_raises", "subscribed"} :
        IF outcome = "connect_raises"
        THEN /\ is_connected' = FALSE
             /\ NextAttempt(t)
             /\ UNCHANGED <<subscribed_symbols, last_bar_timestamp, feed>>
        ELSE IF outcome = "subscribe_raises"
        THEN /\ is_connected' = FALSE
             /\ subscribed_symbols' = FALSE
             /\ last_bar_timestamp' = NoTime
             /\ NextAttempt(t)
             /\ UNCHANGED feed
        ELSE /\ is_connected' = TRUE
             /\ subscribed_symbols' = TRUE
             /\ last_bar_timestamp' = NoTime
             /\ feed' \in {"flowing", "dead"}
             /\ rpc' = [rpc EXCEPT ![t] = "verify"]
             /\ UNCHANGED <<is_reconnecting, attempt, result, exhausted>>
    /\ UNCHANGED <<pipeline_bars, driver, now, outage>>
    /\ UNCHANGED outside_link

\* DataPipeline.backfill_missed_bars: the bars of the broker's history it
\* adds, those after the symbol's last_bar_timestamp; none for a symbol
\* without one
BackfillMissedBars(last_bar_time, history) ==
    IF last_bar_time = NoTime THEN {}
    ELSE {b \in history : b > last_bar_time.at}

\* reconnect, the rest of an attempt: without ticks two seconds after the
\* resubscription the attempt failed (the last one returns False at
\* once); with ticks backfill_missed_bars runs and reconnect returns True
Verify(t) ==
    /\ driver # "exited"
    /\ rpc[t] = "verify"
    /\ IF feed = "dead"
       THEN /\ is_connected' =
                    (IF attempt[t] < WEBSOCKET_MAX_RECONNECT_ATTEMPTS
                     THEN FALSE ELSE is_connected)
            /\ NextAttempt(t)
            /\ UNCHANGED <<pipeline_bars, last_bar_timestamp>>
       ELSE \E history \in {{}, 0 .. now} :
            \E missed \in {BackfillMissedBars(last_bar_timestamp, history)} :
            /\ pipeline_bars' = pipeline_bars \cup missed
            /\ last_bar_timestamp' =
                    (IF missed = {} THEN last_bar_timestamp ELSE [at |-> now])
            /\ rpc' = [rpc EXCEPT ![t] = "none"]
            /\ result' = [result EXCEPT ![t] = "True"]
            /\ is_reconnecting' = FALSE
            /\ UNCHANGED <<is_connected, attempt, exhausted>>
    /\ UNCHANGED <<subscribed_symbols, driver, feed, now, outage>>
    /\ UNCHANGED outside_link

\* run_trading_loop, after reconnect returned: on True the loop goes on,
\* on False it starts the emergency shutdown
LoopResumes ==
    /\ driver = "reconnecting"
    /\ result["loop"] # "none"
    /\ driver' = (IF result["loop"] = "True" THEN "running" ELSE "shutdown")
    /\ UNCHANGED <<is_reconnecting, is_connected, subscribed_symbols,
                   last_bar_timestamp, pipeline_bars, rpc, attempt, result,
                   feed, now, outage, exhausted>>
    /\ UNCHANGED outside_link

\* run_trading_loop: handle_emergency_shutdown returned and SystemExit
\* ends the process, its daemon threads included
LoopExits ==
    /\ driver = "shutdown"
    /\ driver' = "exited"
    /\ UNCHANGED <<is_reconnecting, is_connected, subscribed_symbols,
                   last_bar_timestamp, pipeline_bars, rpc, attempt, result,
                   feed, now, outage, exhausted>>
    /\ UNCHANGED outside_link

NextLink ==
    \/ FeedDies
    \/ MinuteEnds
    \/ MonitorTriggers
    \/ LoopTriggers
    \/ \E t \in Threads : Enter(t)
    \/ \E t \in Threads : Attempt(t)
    \/ \E t \in Threads : Verify(t)
    \/ LoopResumes
    \/ LoopExits

SpecLink == Init /\ [][NextLink]_vars

\* process_tick, steps 1 and 2: get_all_latest_bars gives the latest
\* completed bar of the subscribed symbol, update_all passes it to add_bar,
\* which appends it unless the detector's last bar is as late
DeliverLatestBar ==
    /\ driver = "running"
    /\ subscribed_symbols
    /\ pipeline_bars # {}
    /\ LET latest == CHOOSE b \in pipeline_bars : \A c \in pipeline_bars : c <= b
       IN detector_bars' =
            IF detector_bars = << >> \/ detector_bars[Len(detector_bars)] < latest
            THEN Append(detector_bars, latest)
            ELSE detector_bars
    /\ UNCHANGED <<session_bars, session_vwap_data, history_loaded,
                   error_notifications_log, clock, notified, link_vars,
                   trading_vars, feed_vars, audit_vars, shutdown_flag, call_vars>>

\* the connection and the decision loop's bar delivery
SpecDelivery == Init /\ [][NextLink \/ DeliverLatestBar]_vars

\* ------------------------------------------------------------ shutdown signal
\* signal_handler, registered for SIGINT: it sets shutdown_flag and calls
\* sys.exit(0).  The SystemExit it raises in the main thread is caught
\* neither by run_trading_loop (except KeyboardInterrupt, except
\* Exception) nor by main (except KeyboardInterrupt), so the process ends
\* wherever the loop was.
SignalHandler ==
    /\ pc \notin {"exited", "interrupted"}
    /\ shutdown_flag' = TRUE
    /\ pc' = "interrupted"
    /\ UNCHANGED <<program_vars, broker_vars, ghost_vars, feed_vars,
                   link_vars, audit_vars, call_vars, unit_vars>>

\* ------------------------------------------------------------ function calls
\* get_order_triggers called on every combination of best candidate,
\* standing order and price
CallGetOrderTriggers ==
    \E ot \in Sides :
    LET symbols == {x \in {"CE1", "CE2", "PE1", "PE2"} : OptionType(x) = ot}
        candidates == {[symbol |-> s, quantity |-> MaxQty, broke_in_history |-> b] :
                          s \in symbols, b \in BOOLEAN}
        orders == {[symbol |-> s, quantity |-> MaxQty] : s \in symbols}
    IN
    \E candidate \in candidates \cup {NoCandidate},
       existing_order \in orders \cup {Absent, NoneMarker},
       price_above_swing \in {NoPrice} \cup {[points |-> d] : d \in {0 - 1, 0, 1}} :
        /\ call_in' = [option_type |-> ot, candidate |-> candidate,
                       existing_order |-> existing_order,
                       price_above_swing |-> price_above_swing]
        /\ call_out' = GetOrderTrigger(candidate, existing_order, price_above_swing)
        /\ UNCHANGED <<trading_vars, feed_vars, audit_vars, link_vars, shutdown_flag,
                       swing_candidates, unit_vars>>

SpecTriggers == Init /\ [][CallGetOrderTriggers]_vars

\* ------------------------------------------------------------ filter engine
\* ContinuousFilterEngine with two symbols of one side: its methods called
\* in any order.  The Low swings a detector can deliver:
FilterSymbols == {"CE1", "CE2"}
FilterSwings ==
    {[price |-> p, vwap |-> v, index |-> 1, broken |-> FALSE] :
        p \in {MIN_ENTRY_PRICE - 1, MIN_ENTRY_PRICE, 130, MAX_ENTRY_PRICE,
               MAX_ENTRY_PRICE + 1},
        v \in {96, 125}}

CallAddSwingCandidate ==
    \E symbol \in FilterSymbols, swing \in FilterSwings :
    \E added \in {AddSwing(swing_candidates, stage1_swings, symbol, swing)} :
        /\ swing_candidates' = added.swing_candidates
        /\ stage1_swings' = added.stage1_swings
        /\ call_in' = [op |-> "add_swing_candidate", symbol |-> symbol,
                       swing_info |-> swing]
        /\ call_out' = NoCall
        /\ UNCHANGED <<bars, swings, low_watch_count, high_watch_count,
                       is_historical_processing, current_best, swing_info, trigger,
                       trading_vars, audit_vars, link_vars, shutdown_flag, unit_vars>>

\* ContinuousFilterEngine.remove_swing_candidate: the key goes, the pool
\* is left as it is
CallRemoveSwingCandidate ==
    \E symbol \in FilterSymbols :
        /\ swing_candidates' = swing_candidates \ {symbol}
        /\ call_in' = [op |-> "remove_swing_candidate", symbol |-> symbol]
        /\ call_out' = NoCall
        /\ UNCHANGED <<feed_vars, trading_vars, audit_vars, link_vars, shutdown_flag,
                       unit_vars>>

\* ContinuousFilterEngine.evaluate_all_candidates: latest_bars has a bar
\* (its low) or no bar for a symbol, and the symbol's detector has a
\* highest high since the swing, given as the stop distance it leads to
CallEvaluateAllCandidates ==
    \E latest_bars \in [FilterSymbols -> {Absent, [low |-> 129], [low |-> MAX_ENTRY_PRICE]}],
       distance \in [FilterSymbols -> {2, 8, 13}] :
        LET has_bar(s) == latest_bars[s.symbol] # Absent
            pool == SelectSeq(stage1_swings, LAMBDA s :
                        ~(has_bar(s) /\ latest_bars[s.symbol].low < s.price))
            evaluated == SelectSeq(pool, has_bar)
            enriched == [k \in DOMAIN evaluated |->
                            EnrichAt(evaluated[k],
                                     evaluated[k].price + distance[evaluated[k].symbol] - 1)]
        IN /\ stage1_swings' = pool
           /\ current_best' = BestOf(enriched)
           /\ call_in' = [op |-> "evaluate_all_candidates", latest_bars |-> latest_bars,
                          distance |-> distance, pool |-> stage1_swings]
           /\ call_out' = current_best'
           /\ UNCHANGED <<bars, swings, low_watch_count, high_watch_count,
                          is_historical_processing, swing_info, trigger,
                          trading_vars, audit_vars, link_vars, shutdown_flag,
                          swing_candidates, unit_vars>>

NextFilter ==
    \/ CallAddSwingCandidate
    \/ CallRemoveSwingCandidate
    \/ CallEvaluateAllCandidates

SpecFilter == Init /\ [][NextFilter]_vars

\* ------------------------------------------------------------ position sizing
\* Prices move in ticks of 0.05: the sizing is followed with the stop
\* distance counted in ticks.
TicksPerRupee == 20

\* a sizing that rounds the lots up
SizeRoundedUp(sl_points) ==
    LET lots_required == (R_VALUE * TicksPerRupee + sl_points * LOT_SIZE - 1)
                            \div (sl_points * LOT_SIZE)
        lots == IF lots_required < MAX_LOTS_PER_POSITION THEN lots_required
                ELSE MAX_LOTS_PER_POSITION
    IN [lots |-> lots, quantity |-> lots * LOT_SIZE,
        actual_R |-> sl_points * lots * LOT_SIZE]

\* evaluate_all_candidates, "Calculate position size": int(lots), quantity
\* and actual_R of a qualified candidate (sl_points and actual_R in ticks)
PositionSize(sl_points) ==
    LET lots_required == (R_VALUE * TicksPerRupee) \div (sl_points * LOT_SIZE)
        lots == IF lots_required < MAX_LOTS_PER_POSITION THEN lots_required
                ELSE MAX_LOTS_PER_POSITION
    IN [lots |-> lots, quantity |-> lots * LOT_SIZE,
        actual_R |-> sl_points * lots * LOT_SIZE]

\* the sizing of a swing that passed the SL% filter
CallPositionSize ==
    \E swing_low \in {MIN_ENTRY_PRICE, 130, MAX_ENTRY_PRICE},
       sl_points \in 1 .. (MAX_ENTRY_PRICE * TicksPerRupee) :
        /\ ~(sl_points * 100 < MIN_SL_PERCENT * swing_low * TicksPerRupee)
        /\ ~(sl_points * 100 > MAX_SL_PERCENT * swing_low * TicksPerRupee)
        /\ call_in' = [op |-> "position_size", swing_low |-> swing_low,
                       sl_points |-> sl_points]
        /\ call_out' = PositionSize(sl_points)
        /\ UNCHANGED <<trading_vars, feed_vars, audit_vars, link_vars, shutdown_flag,
                       swing_candidates, unit_vars>>

SpecSizing == Init /\ [][CallPositionSize]_vars

\* ------------------------------------------------------------ session VWAP
\* DataPipeline.bars and session_vwap_data of one symbol.  A bar is its
\* typical price (high + low + close) / 3 and its volume; the vwap stored
\* on it is kept as the two sums it is the quotient of.  The rows a
\* history request or a finished minute can deliver:
SessionRows ==
    LET row == {[typical |-> t, volume |-> v] : t \in {100, 130}, v \in {1, 3}}
    IN {<<a>> : a \in row} \cup {<<a, b>> : a \in row, b \in row}

\* the loop that turns rows into bars: cum_pv and cum_vol run on from the
\* given sums, every bar gets bar.vwap = cum_pv / cum_vol and is appended
RECURSIVE AppendRows(_, _, _)
AppendRows(list, cum, rows) ==
    IF rows = << >> THEN [bars |-> list, cum |-> cum]
    ELSE LET row == Head(rows)
             sums == [pv |-> cum.pv + row.typical * row.volume,
                      vol |-> cum.vol + row.volume]
         IN AppendRows(Append(list, [typical |-> row.typical, volume |-> row.volume,
                                     vwap |-> sums]),
                       sums, Tail(rows))

\* DataPipeline.load_historical_data for the symbol: the sums start at
\* zero and replace session_vwap_data.  start() calls it after connect()
\* and subscribe_options().
LoadHistoricalData ==
    /\ ~history_loaded
    /\ \E rows \in SessionRows :
       \E loaded \in {AppendRows(session_bars, [pv |-> 0, vol |-> 0], rows)} :
        /\ Len(loaded.bars) <= MaxSessionBars
        /\ session_bars' = loaded.bars
        /\ session_vwap_data' = loaded.cum
    /\ history_loaded' = TRUE
    /\ UNCHANGED <<detector_bars, error_notifications_log, clock, notified, outside_units>>

\* DataPipeline._on_quote_update, the first tick of a new minute: the
\* finished bar is added to the sums (zero when the symbol has none) and
\* appended
OnQuoteUpdate ==
    \E rows \in {r \in SessionRows : Len(r) = 1} :
    \E added \in {AppendRows(session_bars,
                             IF session_vwap_data = Absent THEN [pv |-> 0, vol |-> 0]
                             ELSE session_vwap_data,
                             rows)} :
        /\ Len(added.bars) <= MaxSessionBars
        /\ session_bars' = added.bars
        /\ session_vwap_data' = added.cum
        /\ UNCHANGED <<history_loaded, detector_bars, error_notifications_log, clock,
                       notified, outside_units>>

\* DataPipeline.fill_initial_gap and backfill_missed_bars: the sums run on
\* from session_vwap_data, or from the bars held when the symbol has none
FillMissedBars ==
    /\ history_loaded
    /\ \E rows \in SessionRows :
       \E filled \in {AppendRows(session_bars,
                                 IF session_vwap_data = Absent
                                 THEN AppendRows(<< >>, [pv |-> 0, vol |-> 0],
                                                 session_bars).cum
                                 ELSE session_vwap_data,
                                 rows)} :
        /\ Len(filled.bars) <= MaxSessionBars
        /\ session_bars' = filled.bars
        /\ session_vwap_data' = filled.cum
    /\ UNCHANGED <<history_loaded, detector_bars, error_notifications_log, clock,
                       notified, outside_units>>

SpecVwap == Init /\ [][LoadHistoricalData \/ OnQuoteUpdate \/ FillMissedBars]_vars

\* ------------------------------------------------------------ notifications
\* NotificationManager.THROTTLE_WINDOWS, in seconds
ThrottleWindow(error_type) ==
    IF error_type = "BROKER_DISCONNECTED" THEN NOTIFICATION_THROTTLE_BROKER ELSE 0

\* a throttle that still holds at the end of the window
ShouldSendAfterWindow(row, error_type, time) ==
    IF row = Absent THEN TRUE
    ELSE IF row.is_resolved THEN TRUE
    ELSE IF ThrottleWindow(error_type) = 0 THEN TRUE
    ELSE ~(time - row.last_notification_sent <= ThrottleWindow(error_type))

\* NotificationManager.should_send_notification, row being the log's row
\* of the error
ShouldSendNotification(row, error_type, time) ==
    IF row = Absent THEN TRUE
    ELSE IF row.is_resolved THEN TRUE
    ELSE IF ThrottleWindow(error_type) = 0 THEN TRUE
    ELSE ~(time - row.last_notification_sent < ThrottleWindow(error_type))

\* NotificationManager.send_error_notification: a throttled error is
\* counted only; otherwise the row is updated or inserted and the message
\* goes to Telegram
SendErrorNotification ==
    \E error_type \in ErrorTypes, is_critical \in BOOLEAN,
       time \in {clock + k * ClockStep : k \in 0 .. 2} :
    \E row \in {error_notifications_log[error_type]} :
    \E send \in {is_critical \/ ShouldSendNotification(row, error_type, time)} :
        /\ time <= MaxClock
        /\ row # Absent => row.occurrence_count < MaxOccurrences
        /\ clock' = time
        /\ error_notifications_log' =
            [error_notifications_log EXCEPT ![error_type] =
                IF ~send
                THEN [row EXCEPT !.occurrence_count = @ + 1]
                ELSE IF row # Absent
                THEN [row EXCEPT !.occurrence_count = @ + 1,
                                 !.last_notification_sent = time,
                                 !.notification_count = @ + 1,
                                 !.is_resolved = FALSE]
                ELSE [occurrence_count |-> 1, last_notification_sent |-> time,
                      notification_count |-> 1, is_resolved |-> FALSE]]
        /\ notified' = [error_type |-> error_type, is_critical |-> is_critical,
                        sent |-> send]
        /\ UNCHANGED <<session_bars, session_vwap_data, history_loaded, detector_bars,
                       outside_units>>

\* NotificationManager.mark_resolved with the error's message
MarkResolved ==
    \E error_type \in ErrorTypes :
    \E row \in {error_notifications_log[error_type]} :
        /\ error_notifications_log' =
            [error_notifications_log EXCEPT ![error_type] =
                IF row # Absent /\ ~row.is_resolved
                THEN [row EXCEPT !.is_resolved = TRUE] ELSE row]
        /\ notified' = NoCall
        /\ UNCHANGED <<session_bars, session_vwap_data, history_loaded, detector_bars,
                       clock, outside_units>>

SpecNotify == Init /\ [][SendErrorNotification \/ MarkResolved]_vars

\* ------------------------------------------------------------ specifications
\* one iteration of the loop without a stale feed
Cycle(E) ==
    \/ \E ot \in Sides : ManageOrders(E, ot)
    \/ CheckFills(E)
    \/ HandleOrderFill(E)
    \/ UpdateAndCheckExit(E)
    \/ LoopBack

\* the program under every fault of the broker and of the feed, with
\* partial fills and moving prices.  run_trading_loop tests is_market_open
\* before is_force_exit_time and MARKET_END_TIME equals FORCE_EXIT_TIME
\* (config.py), so the loop never reaches handle_eod_exit: the daily exit
\* is the only liquidation that runs.
Next ==
    \/ Cycle(FaultyEnv)
    \/ HandleEmergencyShutdown(FaultyEnv)
    \/ Watchdog(FaultyEnv)
    \/ AfterReconcile
    \/ \E ot \in Sides : BrokerFillsEntry(FaultyEnv, ot)
    \/ \E ot \in Sides : BrokerRejectsEntry(ot)
    \/ \E symbol \in Symbols : BrokerEndsStop(symbol)

Spec == Init /\ [][Next]_vars

\* the program under failing broker calls, with entry orders that stay
\* live at the broker after an ignored cancel failure, and enough fills
\* for MAX_SL_FAILURE_COUNT stop failures in a row
NextOrders ==
    \/ Cycle(OrdersEnv)
    \/ HandleEmergencyShutdown(OrdersEnv)
    \/ \E ot \in Sides : BrokerFillsEntry(OrdersEnv, ot)
    \/ \E ot \in Sides : BrokerRejectsEntry(ot)
    \/ \E ot \in Sides : ZombieEnds(ot)

SpecOrders == Init /\ [][NextOrders]_vars

\* the program with a broker that never fails, over enough symbols and
\* fills to reach the position limits
NextLimits ==
    \/ Cycle(BenignEnv)
    \/ \E ot \in Sides : BrokerFillsEntry(BenignEnv, ot)

SpecLimits == Init /\ [][NextLimits]_vars

\* the program with a broker whose calls succeed and whose position book
\* can show positions the program did not open and quantities it did not
\* fill
NextLedger ==
    \/ Cycle(LedgerEnv)
    \/ \E ot \in Sides : BrokerFillsEntry(LedgerEnv, ot)
    \/ \E symbol \in Symbols : BrokerEndsStop(symbol)

SpecLedger == Init /\ [][NextLedger]_vars

\* the same program when SIGINT can arrive between any two steps
NextSignal ==
    \/ NextLedger
    \/ SignalHandler

SpecSignal == Init /\ [][NextSignal]_vars

\* ------------------------------------------------------------ claims
Unprotected == {s \in OpenSymbols(open_positions) : active_sl_orders[s] = Absent}

C2_ClosedOrAlerted ==
    (last_fill # NoFill /\ ~last_fill.sl_ok) =>
        \/ /\ open_positions[last_fill.symbol] = Absent
           /\ \E x \in exits : x.symbol = last_fill.symbol /\ x.accepted
        \/ /\ open_positions[last_fill.symbol] # Absent
           /\ last_fill.symbol \in alerts
           /\ last_fill.alert_quantity = open_positions[last_fill.symbol].quantity

\* a fill was handled, its stop placement failed, its emergency exit too
C2_Witness ==
    /\ last_fill # NoFill
    /\ ~last_fill.sl_ok
    /\ last_fill.alert_quantity > 0

\* C3: for every entry fill, found by the fill poll or by the reconnect
\* reconciliation, the stop order is requested for the quantity the
\* broker reports as filled.
C3_StopMatchesFilled ==
    last_fill # NoFill => last_fill.sl_quantity = last_fill.broker_filled

\* C4, as stated: no emergency market order when the broker shows no open
\* quantity, and every market buy sized to the broker's quantity.
C4_SizedToBroker ==
    \A x \in exits : x.order_quantity = x.reported

\* C4, amended: when the position book was read, the emergency exit
\* submits no order for a symbol the book shows flat and sizes the market
\* buy to the book's quantity; when the book cannot be read, the market
\* buy is sized to the locally supplied quantity.
C4_SizedToBrokerWhenRead ==
    \A x \in exits :
        x.order_quantity = (IF x.book = "success" THEN x.reported ELSE x.supplied)

\* an emergency exit read a book quantity different from the supplied one
C4_Witness ==
    \E x \in exits :
        x.book = "success" /\ x.reported > 0 /\ x.reported # x.supplied

\* C5: the ledger never holds more than MAX_POSITIONS positions, nor more
\* than MAX_CE_POSITIONS calls, nor more than MAX_PE_POSITIONS puts,
\* whatever entry orders are outstanding when fills arrive.
C5_WithinLimits ==
    /\ Cardinality(OpenSymbols(open_positions)) <= MAX_POSITIONS
    /\ Cardinality(OpenOfType(open_positions, "CE")) <= MAX_CE_POSITIONS
    /\ Cardinality(OpenOfType(open_positions, "PE")) <= MAX_PE_POSITIONS

\* entry orders of a side that are live at the broker
LiveEntries(ot) ==
    zombies[ot] + (IF broker_entry[ot] # NoOrder /\ broker_entry[ot].status = "open"
                   THEN 1 ELSE 0)

\* C6: at most one entry order per side is live at the broker.
C6_OneLiveEntryPerSide == \A ot \in Sides : LiveEntries(ot) <= 1

\* C7: once MAX_SL_FAILURE_COUNT stop placements failed in a row, no
\* entry order is submitted any more.
C7_NoEntryAfterHalt ==
    ShouldHaltTrading(consecutive_sl_failures) => submitted = {}

\* C8: the daily-exit liquidation is started once: no step of a cycle that
\* begins with the exit flag already set starts it again.
C8_LiquidationOnce == [][daily_exit_triggered => liq' = NoLiq]_vars

\* C9: once the daily exit flag is set no position is added to the
\* ledger.
C9_NoPositionAfterExit ==
    [][daily_exit_triggered =>
          OpenSymbols(open_positions') \subseteq OpenSymbols(open_positions)]_vars

\* C10: a liquidation submits, for every position open at its start, a
\* market exit at the position's quantity, after a cancel request for
\* every entry and stop order tracked at its start.
C10_CancelThenFlatten ==
    liq # NoLiq =>
        \A p \in liq.positions :
            \E i \in DOMAIN liq.calls :
                /\ liq.calls[i].op = "market"
                /\ liq.calls[i].key = p.symbol
                /\ liq.calls[i].quantity = p.quantity
                /\ \A k \in liq.tracked :
                      \E j \in 1 .. (i - 1) :
                          liq.calls[j].op = "cancel" /\ liq.calls[j].key = k

\* C11: no 'place' directive is derived for a candidate whose pooled swing
\* mark_historical_breaks flagged as broken inside the backfilled window.
C11_FlaggedNeverPlaced ==
    trigger = "place" =>
        \A k \in DOMAIN stage1_swings :
            (/\ stage1_swings[k].symbol = current_best.symbol
             /\ stage1_swings[k].index = current_best.swing_index)
                => stage1_swings[k].broke_in_history # "True"

\* C12: a Low swing the detector has marked broken is not delivered to the
\* swing callback afterwards and is not admitted into the candidate pool,
\* also after an update in place to a more extreme price.
C12_BrokenNeverReadmitted ==
    /\ swing_info # NoSwing => ~swing_info.broken
    /\ \A k \in DOMAIN stage1_swings : ~stage1_swings[k].broken

\* C13: every recorded Low swing that a later bar undercut is marked
\* broken, whatever swing formed in between, and a swing is marked broken
\* exactly when it produced its one break event.
C13_BrokenAtFirstUndercut ==
    \A k \in DOMAIN swings :
        swings[k].type = "Low" =>
            /\ (\E i \in (swings[k].index + 1) .. Len(bars) :
                    bars[i].low < swings[k].price) => swings[k].broken
            /\ swings[k].broken <=> swings[k].break_events = 1

\* C14: after a reconnect whose reconciliation read the order book, every
\* open position that had no tracked stop order, or whose tracked stop
\* order the book does not list or lists as rejected or cancelled, is
\* reported in sl_orders_missing.
C14_UnprotectedReported ==
    order_book # NoBook =>
        \A s \in OpenSymbols(open_positions) :
            (\/ s \in order_book.untracked
             \/ /\ active_sl_orders[s] # Absent
                /\ \/ s \in order_book.purged
                   \/ broker_stop[s].status \in {"rejected", "cancelled"})
            => s \in sl_orders_missing

\* C15: after a reconciliation that read the order book, no tracked entry
\* order is one the book does not list or lists as filled, rejected or
\* cancelled.
C15_NoEndedEntryTracked ==
    order_book # NoBook =>
        \A ot \in Sides :
            IsOrder(pending_limit_orders[ot]) =>
                /\ ot \notin order_book.purged
                /\ broker_entry[ot].status \notin {"complete", "rejected", "cancelled"}

\* C16: a periodic reconcile_with_broker that read the position book
\* closes exactly the open positions the book does not show, at their
\* current price and with the reason SL_HIT_RECONCILED; it adds no position
\* the ledger did not hold and changes no quantity.
C16_OnlyPhantomsClosed ==
    [][(pc = "ledger" /\ position_book' # NoBook) =>
        LET book == position_book'.quantity
            phantom == {s \in OpenSymbols(open_positions) : book[s] = 0}
        IN /\ position_book'.closed = phantom
           /\ position_book'.exit_reason = "SL_HIT_RECONCILED"
           /\ OpenSymbols(open_positions') = OpenSymbols(open_positions) \ phantom
           /\ \A s \in OpenSymbols(open_positions') :
                    open_positions'[s].quantity = open_positions[s].quantity
           /\ closed_positions'.realized_pnl =
                    closed_positions.realized_pnl
                    + SumPnl(UpdatePrices(open_positions, position_book'.move), phantom)
      ]_vars

\* a reconciliation that closed a phantom position while the book showed
\* an orphaned position and a quantity the ledger does not hold
C16_Witness ==
    /\ position_book # NoBook
    /\ position_book.closed # {}
    /\ position_book.move # 0
    /\ \E s \in Symbols : open_positions[s] = Absent
                            /\ s \notin position_book.closed
                            /\ position_book.quantity[s] > 0
    /\ \E s \in OpenSymbols(open_positions) :
            position_book.quantity[s] # open_positions[s].quantity

InReconnect == {t \in Threads : rpc[t] \in {"attempt", "verify"}}

\* C17: a reconnect makes at most WEBSOCKET_MAX_RECONNECT_ATTEMPTS
\* attempts, and once a reconnect has used them up, whichever thread ran
\* it, no reconnect is started again.
C17_ExhaustionIsFinal ==
    [][/\ \A t \in Threads : attempt'[t] <= WEBSOCKET_MAX_RECONNECT_ATTEMPTS
       /\ exhausted # {} =>
            \A t \in Threads : ~(rpc[t] = "call" /\ rpc'[t] = "attempt")
      ]_vars

\* C18: at most one thread is inside the reconnect procedure, and the
\* guard flag is set exactly while one is.
C18_OneReconnect ==
    /\ Cardinality(InReconnect) <= 1
    /\ is_reconnecting <=> InReconnect # {}

\* one thread called reconnect while the other was inside it, and a
\* reconnect that failed has left
C18_Witness ==
    /\ \E t \in InReconnect : \E u \in Threads \ {t} : rpc[u] = "call"
    /\ exhausted # {}

\* C19: when a reconnect returns True, the bar history holds a bar for
\* every minute that ended during the outage.
C19_OutageBackfilled ==
    [][\A t \in Threads :
          (result[t] # "True" /\ result'[t] = "True") => outage \subseteq pipeline_bars'
      ]_vars

\* C20: when the process has ended on a shutdown signal, the tracked
\* orders were cancelled at the broker and no position is left open in
\* the ledger without a flattening order.
C20_ShutdownSequenceDone ==
    pc = "interrupted" =>
        /\ \A ot \in Sides :
                broker_entry[ot] = NoOrder \/ broker_entry[ot].status # "open"
        /\ \A s \in Symbols :
                broker_stop[s] = NoOrder \/ broker_stop[s].status # "open"
        /\ OpenSymbols(open_positions) = {}

\* C21: after the halt declared at MAX_SL_FAILURE_COUNT consecutive stop
\* failures the process has not terminated.
C21_HaltKeepsRunning ==
    consecutive_sl_failures >= MAX_SL_FAILURE_COUNT => pc # "exited"

\* C22: a cancel call that failed is never followed by a tracking update
\* made as if it had succeeded: no step stops tracking an entry order that
\* is still open at the broker.
C22_FailedCancelKeepsTracking ==
    [][\A ot \in Sides : zombies'[ot] <= zombies[ot]]_vars

\* C23: the directive that follows the rejection of a side's entry order
\* does not place an order with the rejected symbol and quantity (trigger
\* and limit follow from the symbol's swing low) again.
C23_NoResendAfterRejection ==
    [][\A ot \in Sides :
          rejections[ot] # NoOrder => pending_limit_orders'[ot] # rejections[ot]
      ]_vars

HasOtherOrder(in) ==
    IsOrder(in.existing_order) /\ in.existing_order.symbol # in.candidate.symbol

StepsDone(done) == {done[i] : i \in DOMAIN done}

\* C25: within an iteration the entry orders are polled for fills only
\* after the directives of both sides were acted on, and the position
\* prices and the daily-exit check are evaluated only after the poll, with
\* no polled fill left to handle.
C25_DirectivesThenFillsThenPrices ==
    [][(steps' # steps /\ steps' # << >>) =>
          LET op == steps'[Len(steps')]
          IN /\ op = "check_fills" =>
                   {"directive_CE", "directive_PE"} \subseteq StepsDone(steps)
             /\ op = "update_prices" =>
                   "check_fills" \in StepsDone(steps) /\ fills = << >>
      ]_vars

\* an iteration that handled two fills between the poll and the prices
C25_Witness ==
    steps = <<"directive_CE", "directive_PE", "check_fills",
              "handle_order_fill", "handle_order_fill", "update_prices">>

Called(op) == call_in # NoCall /\ call_in.op = op

\* the pool holds the given swing under the given symbol
Pooled(symbol, swing) ==
    \E k \in DOMAIN stage1_swings :
        /\ stage1_swings[k].symbol = symbol
        /\ stage1_swings[k].price = swing.price
        /\ stage1_swings[k].vwap = swing.vwap

C27_NewSwingSupersedes ==
    Called("add_swing_candidate") =>
        LET swing == call_in.swing_info
            entries == {k \in DOMAIN stage1_swings :
                            stage1_swings[k].symbol = call_in.symbol}
        IN IF Rejected(swing) THEN entries = {}
           ELSE Cardinality(entries) = 1 /\ Pooled(call_in.symbol, swing)

\* the pool members evaluate_all_candidates was to choose from: a latest
\* bar that does not undercut the swing, and a stop distance within
\* MIN_SL_PERCENT and MAX_SL_PERCENT of the entry price
Eligible ==
    {k \in DOMAIN stage1_swings :
        LET s == stage1_swings[k]
            bar == call_in.latest_bars[s.symbol]
            sl_points == call_in.distance[s.symbol]
        IN /\ bar # Absent
           /\ ~(bar.low < s.price)
           /\ sl_points * 100 >= MIN_SL_PERCENT * s.price
           /\ sl_points * 100 <= MAX_SL_PERCENT * s.price}

\* C28: the best candidate evaluate_all_candidates returns for a side is a
\* pool member the latest bar has not undercut, with its stop distance
\* within MIN_SL_PERCENT and MAX_SL_PERCENT; among all such members its
\* stop distance is closest to the target distance, and among those at
\* the same difference it has the highest entry price; there is none
\* exactly when no member qualifies.
C28_BestIsClosestToTarget ==
    Called("evaluate_all_candidates") =>
        IF Eligible = {} THEN call_out = NoCandidate
        ELSE /\ call_out # NoCandidate
             /\ \E k \in Eligible :
                  LET s == stage1_swings[k]
                      score(x) == Abs(call_in.distance[x.symbol] - TARGET_SL_POINTS)
                  IN /\ call_out.symbol = s.symbol
                     /\ call_out.swing_low = s.price
                     /\ call_out.sl_points = call_in.distance[s.symbol]
                     /\ \A j \in Eligible :
                          LET d == stage1_swings[j]
                          IN \/ score(s) < score(d)
                             \/ score(s) = score(d) /\ s.price >= d.price

\* two members at the same difference from the target, the best being the
\* one with the higher entry price although the other stands first in the
\* pool
C28_Witness ==
    /\ Called("evaluate_all_candidates")
    /\ Cardinality(Eligible) = 2
    /\ call_in.distance["CE1"] = call_in.distance["CE2"]
    /\ call_out # NoCandidate
    /\ call_out.swing_low > stage1_swings[1].price

\* C29: a qualified candidate gets lots = min(floor(R_VALUE / (stop points
\* x LOT_SIZE)), MAX_LOTS_PER_POSITION), quantity = lots x LOT_SIZE and
\* risk = stop points x quantity; for an entry price within
\* MIN_ENTRY_PRICE and MAX_ENTRY_PRICE and a stop distance within
\* MIN_SL_PERCENT and MAX_SL_PERCENT the quantity is at least one lot and
\* the risk is at most R_VALUE.
C29_SizedWithinRisk ==
    Called("position_size") =>
        LET sl_points == call_in.sl_points
            risk(lots) == sl_points * lots * LOT_SIZE
        IN /\ call_out.lots <= MAX_LOTS_PER_POSITION
           /\ risk(call_out.lots) <= R_VALUE * TicksPerRupee
           /\ \/ call_out.lots = MAX_LOTS_PER_POSITION
              \/ risk(call_out.lots + 1) > R_VALUE * TicksPerRupee
           /\ call_out.quantity = call_out.lots * LOT_SIZE
           /\ call_out.actual_R = sl_points * call_out.quantity
           /\ call_out.quantity >= LOT_SIZE
           /\ call_out.actual_R <= R_VALUE * TicksPerRupee

\* the widest stop the filters let through: 10% of MAX_ENTRY_PRICE, sized
\* below MAX_LOTS_PER_POSITION with the lots rounded down
C29_Witness ==
    /\ Called("position_size")
    /\ call_in.swing_low = MAX_ENTRY_PRICE
    /\ call_in.sl_points * 100 = MAX_SL_PERCENT * MAX_ENTRY_PRICE * TicksPerRupee
    /\ call_out.lots = 3
    /\ call_out.actual_R < R_VALUE * TicksPerRupee

\* C30: the R value stored on a position equals the distance between the
\* position's stop price and its entry price multiplied by the position's
\* own quantity, the quantity the broker reported filled.  Prices are
\* counted in stop distances and the entry is taken at the swing low, so
\* that distance is one.
C30_RFromOwnQuantity ==
    \A s \in OpenSymbols(open_positions) :
        open_positions[s].actual_R = 1 * open_positions[s].quantity

\* the sums over the first k bars of the symbol's history
SumsTo(k) == AppendRows(<< >>, [pv |-> 0, vol |-> 0], SubSeq(session_bars, 1, k)).cum

\* C31: the vwap stored on the k-th bar of the symbol's history is the sum
\* of typical price x volume over the bars 1..k divided by the sum of
\* their volumes, on every path that appends bars, also when a live tick
\* finishes a bar while the startup backfill is running.
C31_VwapOverHistory ==
    \A k \in DOMAIN session_bars :
        session_bars[k].vwap.pv * SumsTo(k).vol
            = SumsTo(k).pv * session_bars[k].vwap.vol

\* the detector's last swing, and the first bar of its scan window
LastSwing(sw) == sw[Len(sw)]
WindowStart(sw) == IF sw = << >> THEN 1 ELSE LastSwing(sw).index + 1

\* C32: a swing is created on bar i only when bar i gives an earlier bar
\* of the scan window its second watch of the matching kind, and the
\* swing's kind, price and index are those of the lowest-low (Low) or
\* highest-high (High) bar of the window: all bars up to i before any
\* swing exists, the bars after the last swing's index up to i afterwards.
C32_SwingFromSecondWatch ==
    [][Len(swings') = Len(swings) + 1 =>
        LET i == Len(bars')
            current == bars'[i]
            from == WindowStart(swings)
            new == LastSwing(swings')
        IN /\ Len(bars') = Len(bars) + 1
           /\ \E j \in from .. (i - 1) :
                IF new.type = "Low"
                THEN LowWatch(current, bars[j]) /\ low_watch_count[j] = 1
                ELSE HighWatch(current, bars[j]) /\ high_watch_count[j] = 1
           /\ new.index \in from .. i
           /\ IF new.type = "Low"
              THEN /\ new.price = bars'[new.index].low
                   /\ \A k \in from .. i : new.price <= bars'[k].low
              ELSE /\ new.price = bars'[new.index].high
                   /\ \A k \in from .. i : new.price >= bars'[k].high]_vars

\* a second swing was created from a window that starts after the first
C32_Witness ==
    /\ Len(swings) = 2
    /\ swings[2].type = "Low"
    /\ swings[2].index > swings[1].index + 1
    /\ swing_info = swings[2]

\* C33: a same-kind update changes only the last swing's price and
\* position, to those of the newly confirmed more extreme bar; the VWAP
\* at formation, the kind and the broken flag stay, the swing list gets
\* no new entry, and the new extreme is strictly beyond the old price.
C33_UpdateInPlace ==
    [][(/\ swings # << >>
        /\ Len(swings') = Len(swings)
        /\ LastSwing(swings').index # LastSwing(swings).index) =>
        LET old == LastSwing(swings)
            new == LastSwing(swings')
        IN /\ \A k \in 1 .. (Len(swings) - 1) : swings'[k] = swings[k]
           /\ new.type = old.type
           /\ new.vwap = old.vwap
           /\ new.broken = old.broken
           /\ new.index \in (old.index + 1) .. Len(bars')
           /\ IF old.type = "Low"
              THEN new.price = bars'[new.index].low /\ new.price < old.price
              ELSE new.price = bars'[new.index].high /\ new.price > old.price]_vars

\* a broken swing low was moved to a lower low and is still broken
C33_Witness ==
    /\ swing_info # NoSwing
    /\ swing_info.broken
    /\ swings # << >>
    /\ LastSwing(swings).index = swing_info.index

\* C39: consecutive entries of the swing list have different kinds and
\* strictly increasing bar indices, and the last swing's index is an index
\* of the detector's bar list.
C39_SwingsAlternate ==
    /\ \A k \in 1 .. (Len(swings) - 1) :
        /\ swings[k].type # swings[k + 1].type
        /\ swings[k].index < swings[k + 1].index
    /\ swings # << >> => LastSwing(swings).index \in 1 .. Len(bars)

\* a Low swing follows a High swing in the list
C39_Witness ==
    /\ Len(swings) >= 2
    /\ swings[1].type = "High"
    /\ swings[2].type = "Low"

\* C40: a bar whose timestamp is that of the detector's most recent bar
\* or earlier, passed through MultiSwingDetector.update, leaves the
\* detector's bars, swings, watch counters and broken flags as they were.
C40_StaleBarChangesNothing ==
    [][StaleBar => UNCHANGED <<bars, swings, low_watch_count, high_watch_count>>]_vars

\* C36: every completed bar appended to the symbol's history reaches the
\* symbol's swing detector exactly once and in timestamp order, also the
\* bars completed or backfilled while a decision cycle was delayed: the
\* detector's bars are, in order, the history's bars up to its last one.
C36_EveryBarDelivered ==
    /\ \A k \in 1 .. (Len(detector_bars) - 1) : detector_bars[k] < detector_bars[k + 1]
    /\ detector_bars # << >> =>
        \A b \in pipeline_bars :
            b <= detector_bars[Len(detector_bars)]
                => Cardinality({k \in DOMAIN detector_bars : detector_bars[k] = b}) = 1

\* C34: for a non-critical error that has been notified and is not marked
\* resolved, a repeat before the type's throttle window has passed since
\* the last notification is counted as an occurrence, sends nothing and
\* leaves the notification count; a repeat after the window, or after the
\* error was marked resolved, sends a notification.
C34_RepeatsThrottled ==
    [][(notified' # NoCall /\ ~notified'.is_critical) =>
        LET error_type == notified'.error_type
            row == error_notifications_log[error_type]
            new == error_notifications_log'[error_type]
        IN (row # Absent /\ row.notification_count > 0) =>
            IF ~row.is_resolved
               /\ clock' - row.last_notification_sent < ThrottleWindow(error_type)
            THEN /\ new.occurrence_count = row.occurrence_count + 1
                 /\ new.notification_count = row.notification_count
                 /\ ~notified'.sent
            ELSE notified'.sent]_vars

\* a repeat inside the window was counted and not sent
C34_Witness ==
    /\ notified # NoCall
    /\ ~notified.is_critical
    /\ ~notified.sent
    /\ error_notifications_log[notified.error_type].occurrence_count = 2
    /\ error_notifications_log[notified.error_type].notification_count = 1

\* C37: the decision loop starts the emergency shutdown for a failed
\* reconnect only after a reconnect has used up all its attempts; a
\* watchdog check that finds the monitor's reconnect in progress does not
\* start the shutdown.
C37_ShutdownAfterExhaustion ==
    driver = "shutdown" => exhausted # {}

\* C38: whenever the liquidation closes a position in the ledger, no stop
\* order of that symbol remains open at the broker afterwards: the market
\* exit is submitted only after the stop's cancellation has succeeded.
C38_NoStopAfterLiquidation ==
    [][\A s \in Symbols :
          (liq' # NoLiq /\ open_positions[s] # Absent /\ open_positions'[s] = Absent)
            => (broker_stop'[s] = NoOrder \/ broker_stop'[s].status # "open")]_vars

\* C35: an entry order the broker has filled leaves the local tracking
\* only with a fill event produced for it (the event that opens the
\* ledger position and places its stop), also when the side's directive
\* in the cycle is a cancel or a replacement.
C35_FilledEntryYieldsFill ==
    [][\A ot \in Sides :
          (/\ IsOrder(pending_limit_orders[ot])
           /\ broker_entry[ot] # NoOrder
           /\ broker_entry[ot].status = "complete"
           /\ pending_limit_orders'[ot] # pending_limit_orders[ot])
            => \E i \in DOMAIN fills' :
                    /\ fills'[i].option_type = ot
                    /\ fills'[i].symbol = pending_limit_orders[ot].symbol]_vars
====
